---- MODULE Spec2Model ----
(***************************************************************************)
(* Model of the camera HAL coordinator (CameraHardware.cpp): the command   *)
(* thread, the hotplug thread, the preview thread, the one-shot picture    *)
(* and autofocus threads, the coordinating mutex mLock, the buffer-pool    *)
(* heaps and the capture engine they drive.                                *)
(***************************************************************************)
EXTENDS Integers, Sequences, FiniteSets, TLC

\* ------------------------------------------------------------------------
\* Bounds
\* ------------------------------------------------------------------------
MaxWorkers == 2     \* preview thread slots a "new PreviewThread" can use
MaxOneShots == 1    \* picture and autofocus threads alive at the same time

\* ------------------------------------------------------------------------
\* Program constants
\* ------------------------------------------------------------------------
NB_BUFFER == 4
MIN_WIDTH == 320
MIN_HEIGHT == 240

Workers == 1..MaxWorkers
Shots == 1..MaxOneShots

\* Thread identities, as owners of mLock
FreeT == <<"free", 0>>
CmdT == <<"cmd", 0>>
HotT == <<"hot", 0>>
ShotT(i) == <<"shot", i>>
PrevT(w) == <<"prev", w>>

\* Message bits of mMsgEnabled
CAMERA_MSG_VIDEO_FRAME == "VIDEO_FRAME"
CAMERA_MSG_PREVIEW_FRAME == "PREVIEW_FRAME"
CAMERA_MSG_SHUTTER == "SHUTTER"
CAMERA_MSG_RAW_IMAGE == "RAW_IMAGE"
CAMERA_MSG_COMPRESSED_IMAGE == "COMPRESSED_IMAGE"
CAMERA_MSG_FOCUS == "FOCUS"

\* The msgType arguments the framework passes to enable/disableMsgType
MsgInputs ==
    { {CAMERA_MSG_VIDEO_FRAME},
      {CAMERA_MSG_PREVIEW_FRAME},
      {CAMERA_MSG_SHUTTER, CAMERA_MSG_RAW_IMAGE,
       CAMERA_MSG_COMPRESSED_IMAGE, CAMERA_MSG_FOCUS} }

\* Pixel formats (mPreviewFmt, mRecFmt)
PIXEL_FORMAT_UNKNOWN == "UNKNOWN"
PIXEL_FORMAT_YCrCb_422_I == "YCrCb_422_I"
PIXEL_FORMAT_YCbCr_422_SP == "YCbCr_422_SP"
PIXEL_FORMAT_YCbCr_420_SP == "YCbCr_420_SP"
PIXEL_FORMAT_YV12 == "YV12"

\* ------------------------------------------------------------------------
\* Capture engine (V4L2Camera): catalog and operations
\* ------------------------------------------------------------------------
\* The sizes the device offers; the biggest is the best preview/picture one.
EngineSizes == { <<320, 240>>, <<640, 480>> }

Area(s) == s[1] * s[2]

AbsDiff(a, b) == IF a < b THEN b - a ELSE a - b

\* Init picks the exact size when the device has it, else the nearest by area.
ClosestSize(w, h) ==
    IF <<w, h>> \in EngineSizes THEN <<w, h>>
    ELSE CHOOSE s \in EngineSizes :
           \A t \in EngineSizes :
              \/ AbsDiff(Area(s), w * h) < AbsDiff(Area(t), w * h)
              \/ (AbsDiff(Area(s), w * h) = AbsDiff(Area(t), w * h)
                   /\ Area(s) >= Area(t))

getBestPreviewFmt == CHOOSE s \in EngineSizes : \A t \in EngineSizes : Area(s) >= Area(t)

getBestPictureFmt == CHOOSE s \in EngineSizes : \A t \in EngineSizes : Area(s) >= Area(t)

ClosedEngine == [open |-> FALSE, mapped |-> 0, streaming |-> FALSE, fps |-> 0]

EngOpen(c, ok) == IF ok THEN [c EXCEPT !.open = TRUE] ELSE c

\* Init(w, h, fps) negotiates the frame rate and maps the whole ring, or
\* nothing
EngInit(c, ok, fps) ==
    [c EXCEPT !.mapped = IF ok THEN NB_BUFFER ELSE 0,
              !.fps = IF ok THEN fps ELSE 0]

\* getSize after Init(w, h, fps): the size Init picked from the catalog
getSize(w, h) == ClosestSize(w, h)

EngStartStreaming(c, ok) == IF ok THEN [c EXCEPT !.streaming = TRUE] ELSE c

EngUninit(c) == [c EXCEPT !.mapped = 0, !.fps = 0]

\* a StopStreaming that switches the stream the other way
EngStopStreamingToggle(c) == [c EXCEPT !.streaming = ~@]

EngStopStreaming(c) == [c EXCEPT !.streaming = FALSE]

EngClose(c) == [c EXCEPT !.open = FALSE]

GrabResults == {"NO_ERROR", "TIMED_OUT", "UNKNOWN_ERROR"}

\* ------------------------------------------------------------------------
\* CameraParameters
\* ------------------------------------------------------------------------
\* FromCamera::set with the fields the FromCamera object carries
FromCameraParams(pw, ph, pfps, fw, fh) ==
    [ previewSize |-> <<pw, ph>>,
      videoSize |-> <<pw, ph>>,
      pictureSize |-> <<fw, fh>>,
      previewFormat |-> "yuv422sp",
      videoFrameFormat |-> "yuv420p",
      pictureFormat |-> "jpeg",
      previewFrameRate |-> pfps ]

\* The constructor's FromCamera (no camera seen yet)
DefaultParams == FromCameraParams(MIN_WIDTH, MIN_HEIGHT, 30, MIN_WIDTH, MIN_HEIGHT)

\* tryOpenCamera's FromCamera, filled from the engine catalog
CameraParams ==
    FromCameraParams(getBestPreviewFmt[1], getBestPreviewFmt[2], 30,
                     getBestPictureFmt[1], getBestPictureFmt[2])

\* Parameter sets the framework passes to setParameters
ParamInputs ==
    { CameraParams,
      [CameraParams EXCEPT !.videoSize = <<320, 240>>],
      [CameraParams EXCEPT !.pictureSize = <<320, 240>>],
      [CameraParams EXCEPT !.previewFormat = "yuv422i-yuyv"],
      [CameraParams EXCEPT !.previewFormat = "rgb565"],
      [CameraParams EXCEPT !.videoFrameFormat = "rgb565"],
      [CameraParams EXCEPT !.pictureFormat = "png"] }

SupportedFormats == {"yuv422i-yuyv", "yuv422sp", "yuv420sp", "yuv420p"}

\* the format checks without the one of the video frame format
ParamsAcceptedNoVideoCheck(p) ==
    /\ p.previewFormat \in SupportedFormats
    /\ p.pictureFormat = "jpeg"

\* the three format checks of setParametersLocked
ParamsAccepted(p) ==
    /\ p.previewFormat \in SupportedFormats
    /\ p.pictureFormat = "jpeg"
    /\ p.videoFrameFormat \in SupportedFormats

\* ------------------------------------------------------------------------
\* Buffer-pool sizes (initHeapLocked)
\* ------------------------------------------------------------------------
HeapNames == {"mRawPreviewHeap", "mPreviewHeap", "mRecordingHeap",
              "mRawPictureHeap", "mJpegPictureHeap"}

\* A heap is told from another by its byte size and by the thread slot that
\* requested it (0: initHeapLocked); NULL is the heap that is not allocated.
NullHeap == [alloc |-> FALSE, size |-> 0, by |-> 0]

\* An allocator (camera_request_memory) is told by the biggest request it
\* can satisfy; 0 is the null function pointer.
NoAllocator == 0

\* the allocator of a framework with memory to spare
PlentyMemory == 2147483647

\* allocators of a framework short of memory: one that satisfies nothing,
\* one too small for a raw preview frame of the biggest size
LowAllocators == { 1, 500000 }

\* the allocators a framework may pass to setCallbacks
Allocators == { PlentyMemory } \cup LowAllocators

\* what yuyv_to_jpeg returns for a buffer of maxsize bytes: the compressed
\* size, or 0 when the picture does not fit in the buffer
JpegFileSizes(maxsize) == { 0, maxsize \div 8 }

\* (x + 15) & (-16)
Align16(x) == ((x + 15) \div 16) * 16

\* size of a yuv420p (YV12) frame
YV12Size(w, h) ==
    LET stride == Align16(w)
        y_size == stride * h
        c_stride == Align16(stride \div 2)
        c_size == (c_stride * h) \div 2
    IN  y_size + c_size * 2

\* bytes of one frame of the given parameter format
FrameBytes(f, w, h) ==
    IF f = "yuv422i-yuyv" THEN w * h * 2
    ELSE IF f = "yuv422sp" THEN (w * h * 3) \div 2
    ELSE IF f = "yuv420sp" THEN (w * h * 3) \div 2
    ELSE IF f = "yuv420p" THEN YV12Size(w, h)
    ELSE 0

\* the pixel format stored for a parameter format; prev when no branch matches
PixelFormatOf(f, prev) ==
    IF f = "yuv422i-yuyv" THEN PIXEL_FORMAT_YCrCb_422_I
    ELSE IF f = "yuv422sp" THEN PIXEL_FORMAT_YCbCr_422_SP
    ELSE IF f = "yuv420sp" THEN PIXEL_FORMAT_YCbCr_420_SP
    ELSE IF f = "yuv420p" THEN PIXEL_FORMAT_YV12
    ELSE prev

InitSizes ==
    [ mRawPreviewWidth |-> 0, mRawPreviewHeight |-> 0,
      mRawPreviewFrameSize |-> 0, mPreviewFrameSize |-> 0,
      mRecordingFrameSize |-> 0, mRawPictureBufferSize |-> 0,
      mJpegPictureBufferSize |-> 0,
      mPreviewFmt |-> PIXEL_FORMAT_UNKNOWN, mRecFmt |-> PIXEL_FORMAT_UNKNOWN ]

\* no function is being looked at on its own
NoFunction == [fn |-> "none"]

\* buffers of the preview heap and of the recording heap
\* ("mRequestMemory(-1, mPreviewFrameSize, kBufferCount, mCallbackCookie)")
kBufferCount == 4

\* no buffer, an index past the heap's last: the preview thread has not
\* chosen its "frame"
NoSlot == kBufferCount

\* the constructor's "mCurrentPreviewFrame(0), mCurrentRecordingFrame(0)";
\* frame is the buffer of previewThread's local "frame", previewHanded and
\* recordingHanded are the last kBufferCount - 1 buffers given to the
\* client's callbacks, the newest last
FirstSlots ==
    [ mCurrentPreviewFrame |-> 0, mCurrentRecordingFrame |-> 0,
      frame |-> NoSlot, previewHanded |-> << >>, recordingHanded |-> << >> ]

\* the ring before Init and after Uninit: no slot is mapped
NoRing == [queue |-> << >>, held |-> {}]

\* the ring Init leaves: every slot mapped and queued to the driver
FullRing == [queue |-> [i \in 1..NB_BUFFER |-> i - 1], held |-> {}]

VARIABLES
    mLock,              \* owner of the coordinating mutex
    lpc,                \* position of the mutex owner inside the locked code
    lstack,             \* return positions of the locked calls in progress
    restart_preview,    \* initHeapLocked's local flag
    cpc, cmd, cret,     \* command thread: position, command, returned status
    cprev,              \* a preview thread was running when the command, one
                        \* that ends in initHeapLocked, began
    spret,              \* status the command's startPreviewLocked call returned
    hpc,                \* hotplug thread position
    wpc, exitReq, wRec, \* preview threads: position, exit flag, rawBase choice
    spc, plocal,        \* one-shot threads: position and shutter/raw/jpeg flags
    mReady, mPreviewThread, mRecordingEnabled, mMsgEnabled,
    mParameters, mRequestMemory,
    sz,                 \* recorded sizes and formats
    heap,               \* the five heaps
    camera,             \* the capture engine
    pure,               \* a function of the frame pipeline or of the engine
                        \* called on its own: its name, arguments and result
    videoIn,            \* the engine's buffer ring, followed where the engine
                        \* is driven on its own: the slots queued to the
                        \* driver, in order, and the slots the application holds
    slots               \* mCurrentPreviewFrame and mCurrentRecordingFrame,
                        \* followed where the preview thread's use of the
                        \* client's buffers is looked at, with the buffers
                        \* the client was handed last

vars == << mLock, lpc, lstack, restart_preview, cpc, cmd, cret, cprev, spret, hpc,
           wpc, exitReq, wRec, spc, plocal,
           mReady, mPreviewThread, mRecordingEnabled, mMsgEnabled,
           mParameters, mRequestMemory, sz, heap, camera, pure, videoIn, slots >>

lockVars == << mLock, lpc, lstack, restart_preview >>
cmdVars == << cpc, cmd, cret, cprev, spret >>
workerVars == << wpc, exitReq, wRec >>
shotVars == << spc, plocal >>
coordVars == << mReady, mPreviewThread, mRecordingEnabled, mMsgEnabled,
                mParameters, mRequestMemory >>
poolVars == << sz, heap >>

\* what mRequestMemory(-1, size, n, cookie) hands out: NULL when the
\* allocator cannot satisfy the request
RequestMemory(size, by) ==
    IF size <= mRequestMemory
    THEN [alloc |-> TRUE, size |-> size, by |-> by]
    ELSE NullHeap

\* ------------------------------------------------------------------------
\* Initial state: the object after its constructor.  The constructor's
\* FromCamera::set stores the default parameters; initHeapLocked returns at
\* once because no allocator is installed yet; the hotplug thread is started.
\* ------------------------------------------------------------------------
Init ==
    /\ mLock = FreeT
    /\ lpc = "none"
    /\ lstack = << >>
    /\ restart_preview = FALSE
    /\ cpc = "idle"
    /\ cmd = "none"
    /\ cret = "none"
    /\ cprev = FALSE
    /\ spret = "none"
    /\ hpc = "open"
    /\ wpc = [w \in Workers |-> "dead"]
    /\ exitReq = [w \in Workers |-> FALSE]
    /\ wRec = [w \in Workers |-> FALSE]
    /\ spc = [i \in Shots |-> "none"]
    /\ plocal = [i \in Shots |-> [shutter |-> FALSE, raw |-> FALSE, jpeg |-> FALSE]]
    /\ mReady = FALSE
    /\ mPreviewThread = 0
    /\ mRecordingEnabled = FALSE
    /\ mMsgEnabled = {}
    /\ mParameters = DefaultParams
    /\ mRequestMemory = NoAllocator
    /\ sz = InitSizes
    /\ heap = [n \in HeapNames |-> NullHeap]
    /\ camera = ClosedEngine
    /\ pure = NoFunction
    /\ videoIn = NoRing
    /\ slots = FirstSlots

\* ------------------------------------------------------------------------
\* Calls and returns of the code that runs with mLock held
\* ------------------------------------------------------------------------
\* return to the caller's position
Return ==
    /\ lpc' = Head(lstack)
    /\ lstack' = Tail(lstack)

\* "mRecordingEnabled && mMsgEnabled & CAMERA_MSG_VIDEO_FRAME"
UseVideoSize(rec, msg) == rec /\ CAMERA_MSG_VIDEO_FRAME \in msg

\* the size the raw preview is captured at
RawSizeOf(p, rec, msg) == IF UseVideoSize(rec, msg) THEN p.videoSize ELSE p.previewSize

\* ------------------------------------------------------------------------
\* initHeapLocked, one block of the function per step
\* ------------------------------------------------------------------------
how_raw_preview_big == Area(RawSizeOf(mParameters, mRecordingEnabled, mMsgEnabled)) * 2

how_preview_big ==
    FrameBytes(mParameters.previewFormat, mParameters.previewSize[1], mParameters.previewSize[2])

how_recording_big ==
    FrameBytes(mParameters.videoFrameFormat, mParameters.videoSize[1], mParameters.videoSize[2])

how_picture_big == Area(mParameters.pictureSize) * 2

RawDimsChanged ==
    LET d == RawSizeOf(mParameters, mRecordingEnabled, mMsgEnabled)
    IN  sz.mRawPreviewWidth # d[1] \/ sz.mRawPreviewHeight # d[2]

\* the raw-preview block: effective dimensions, then the raw preview heap
RawBlock(pool) ==
    LET d == RawSizeOf(mParameters, mRecordingEnabled, mMsgEnabled)
    IN  [ sz |-> [pool.sz EXCEPT !.mRawPreviewWidth = d[1],
                                 !.mRawPreviewHeight = d[2],
                                 !.mRawPreviewFrameSize = how_raw_preview_big],
          heap |-> IF how_raw_preview_big # pool.sz.mRawPreviewFrameSize
                   THEN [pool.heap EXCEPT !["mRawPreviewHeap"] =
                                             RequestMemory(how_raw_preview_big, 0)]
                   ELSE pool.heap ]

\* the preview block recording the new size and keeping the old heap
PreviewBlockKeepHeap(pool) ==
    [ sz |-> [pool.sz EXCEPT !.mPreviewFmt = PixelFormatOf(mParameters.previewFormat, @),
                             !.mPreviewFrameSize = how_preview_big],
      heap |-> pool.heap ]

\* the preview block
PreviewBlock(pool) ==
    [ sz |-> [pool.sz EXCEPT !.mPreviewFmt = PixelFormatOf(mParameters.previewFormat, @),
                             !.mPreviewFrameSize = how_preview_big],
      heap |-> IF how_preview_big # pool.sz.mPreviewFrameSize
               THEN [pool.heap EXCEPT !["mPreviewHeap"] =
                                         RequestMemory(how_preview_big, 0)]
               ELSE pool.heap ]

\* the recording block
RecordingBlock(pool) ==
    [ sz |-> [pool.sz EXCEPT !.mRecFmt = PixelFormatOf(mParameters.videoFrameFormat, @),
                             !.mRecordingFrameSize = how_recording_big],
      heap |-> IF how_recording_big # pool.sz.mRecordingFrameSize
               THEN [pool.heap EXCEPT !["mRecordingHeap"] =
                                         RequestMemory(how_recording_big, 0)]
               ELSE pool.heap ]

\* the raw-picture and jpeg blocks
PictureBlock(pool) ==
    [ sz |-> [pool.sz EXCEPT !.mRawPictureBufferSize = how_picture_big,
                             !.mJpegPictureBufferSize = how_picture_big],
      heap |-> [pool.heap EXCEPT
                  !["mRawPictureHeap"] =
                      IF how_picture_big # pool.sz.mRawPictureBufferSize
                      THEN RequestMemory(how_picture_big, 0) ELSE @,
                  !["mJpegPictureHeap"] =
                      IF how_picture_big # pool.sz.mJpegPictureBufferSize
                      THEN RequestMemory(how_picture_big, 0) ELSE @] ]

Pool == [sz |-> sz, heap |-> heap]

SetPool(pool) == sz' = pool.sz /\ heap' = pool.heap

\* "Stop the preview thread if needed" of the raw-preview block
IHStopForRaw ==
    /\ mPreviewThread # 0
    /\ RawDimsChanged \/ how_raw_preview_big # sz.mRawPreviewFrameSize

\* the preview block stopping the preview thread whether or not the
\* preview frame size changes
IHStopForPreviewAlways == ~restart_preview /\ mPreviewThread # 0

\* "Stop the preview thread if needed" of the preview block
IHStopForPreview ==
    /\ how_preview_big # sz.mPreviewFrameSize
    /\ ~restart_preview /\ mPreviewThread # 0

\* the recording block with its stop of the preview thread left out
IHNoStopForRecording == FALSE

\* "Stop the preview thread if needed" of the recording block
IHStopForRecording ==
    /\ how_recording_big # sz.mRecordingFrameSize
    /\ ~restart_preview /\ mPreviewThread # 0

\* stop the preview from inside initHeapLocked and come back at 'back'
IHCallStop(back) ==
    /\ restart_preview' = TRUE
    /\ lpc' = "stl"
    /\ lstack' = << back >> \o lstack

\* entry and raw-preview block.  Without a preview thread no block stops
\* anything, and the four blocks run on to the end.
IHRaw ==
    /\ lpc = "ih1"
    /\ IF mRequestMemory = NoAllocator
       THEN /\ Return
            /\ UNCHANGED << restart_preview, sz, heap >>
       ELSE IF mPreviewThread = 0
       THEN /\ SetPool(PictureBlock(RecordingBlock(PreviewBlock(RawBlock(Pool)))))
            /\ Return
            /\ UNCHANGED restart_preview
       ELSE IF IHStopForRaw
       THEN /\ IHCallStop("ih1a")
            /\ UNCHANGED << sz, heap >>
       ELSE /\ SetPool(RawBlock(Pool))
            /\ lpc' = "ih2"
            /\ UNCHANGED << lstack, restart_preview >>
    /\ UNCHANGED << mLock, cmdVars, hpc, workerVars, shotVars, coordVars, camera,
                    pure, videoIn, slots >>

IHRawStopped ==
    /\ lpc = "ih1a"
    /\ SetPool(RawBlock(Pool))
    /\ lpc' = "ih2"
    /\ UNCHANGED << mLock, lstack, restart_preview, cmdVars, hpc, workerVars,
                    shotVars, coordVars, camera, pure, videoIn, slots >>

IHPreview ==
    /\ lpc = "ih2"
    /\ IF IHStopForPreview
       THEN /\ IHCallStop("ih2a")
            /\ sz' = [sz EXCEPT !.mPreviewFmt = PixelFormatOf(mParameters.previewFormat, @)]
            /\ UNCHANGED heap
       ELSE /\ SetPool(PreviewBlock(Pool))
            /\ lpc' = "ih3"
            /\ UNCHANGED << lstack, restart_preview >>
    /\ UNCHANGED << mLock, cmdVars, hpc, workerVars, shotVars, coordVars, camera,
                    pure, videoIn, slots >>

IHPreviewStopped ==
    /\ lpc = "ih2a"
    /\ SetPool(PreviewBlock(Pool))
    /\ lpc' = "ih3"
    /\ UNCHANGED << mLock, lstack, restart_preview, cmdVars, hpc, workerVars,
                    shotVars, coordVars, camera, pure, videoIn, slots >>

IHRecording ==
    /\ lpc = "ih3"
    /\ IF IHStopForRecording
       THEN /\ IHCallStop("ih3a")
            /\ sz' = [sz EXCEPT !.mRecFmt = PixelFormatOf(mParameters.videoFrameFormat, @)]
            /\ UNCHANGED heap
       ELSE /\ SetPool(RecordingBlock(Pool))
            /\ lpc' = "ih4"
            /\ UNCHANGED << lstack, restart_preview >>
    /\ UNCHANGED << mLock, cmdVars, hpc, workerVars, shotVars, coordVars, camera,
                    pure, videoIn, slots >>

IHRecordingStopped ==
    /\ lpc = "ih3a"
    /\ SetPool(RecordingBlock(Pool))
    /\ lpc' = "ih4"
    /\ UNCHANGED << mLock, lstack, restart_preview, cmdVars, hpc, workerVars,
                    shotVars, coordVars, camera, pure, videoIn, slots >>

\* the picture heaps, without the restart of a stopped preview
IHPictureNoRestart ==
    /\ lpc = "ih4"
    /\ SetPool(PictureBlock(Pool))
    /\ Return
    /\ restart_preview' = FALSE
    /\ UNCHANGED << mLock, cmdVars, hpc, workerVars, shotVars, coordVars, camera,
                    pure, videoIn, slots >>

\* the picture heaps, then "restart the preview if it was stopped"
IHPicture ==
    /\ lpc = "ih4"
    /\ SetPool(PictureBlock(Pool))
    /\ IF restart_preview
       THEN lpc' = "spl" /\ UNCHANGED lstack
       ELSE Return
    /\ restart_preview' = FALSE
    /\ UNCHANGED << mLock, cmdVars, hpc, workerVars, shotVars, coordVars, camera,
                    pure, videoIn, slots >>

initHeapLocked ==
    \/ IHRaw \/ IHRawStopped
    \/ IHPreview \/ IHPreviewStopped
    \/ IHRecording \/ IHRecordingStopped
    \/ IHPicture

\* ------------------------------------------------------------------------
\* stopPreviewLocked
\* ------------------------------------------------------------------------
\* entry: nothing to do without a preview thread, else requestExitAndWait
StopPreviewEntry ==
    /\ lpc = "stl"
    /\ IF mPreviewThread # 0
       THEN /\ exitReq' = [exitReq EXCEPT ![mPreviewThread] = TRUE]
            /\ lpc' = "join"
            /\ UNCHANGED lstack
       ELSE /\ Return
            /\ UNCHANGED exitReq
    /\ UNCHANGED << mLock, restart_preview, cmdVars, hpc, wpc, wRec, shotVars, coordVars, poolVars, camera,
                    pure, videoIn, slots >>

\* requestExit only: the thread is not waited for
StopPreviewNoJoin ==
    /\ lpc = "join"
    /\ exitReq' = [exitReq EXCEPT ![mPreviewThread] = FALSE]
    /\ mPreviewThread' = 0
    /\ lpc' = "uninit"
    /\ UNCHANGED << mLock, lstack, restart_preview, cmdVars, hpc, wpc, wRec,
                    shotVars, mReady, mRecordingEnabled, mMsgEnabled,
                    mParameters, mRequestMemory, poolVars, camera, pure, videoIn, slots >>

\* requestExitAndWait() with the "mPreviewThread.clear()" after it left out
StopPreviewJoinKeepsThread ==
    /\ lpc = "join"
    /\ wpc[mPreviewThread] = "dead"
    /\ exitReq' = [exitReq EXCEPT ![mPreviewThread] = FALSE]
    /\ lpc' = "uninit"
    /\ UNCHANGED << mLock, lstack, restart_preview, cmdVars, hpc, wpc, wRec,
                    shotVars, mReady, mPreviewThread, mRecordingEnabled,
                    mMsgEnabled, mParameters, mRequestMemory, poolVars, camera,
                    pure, videoIn, slots >>

\* requestExitAndWait returns once the thread has exited; mPreviewThread.clear()
StopPreviewJoin ==
    /\ lpc = "join"
    /\ wpc[mPreviewThread] = "dead"
    /\ exitReq' = [exitReq EXCEPT ![mPreviewThread] = FALSE]
    /\ mPreviewThread' = 0
    /\ lpc' = "uninit"
    /\ UNCHANGED << mLock, lstack, restart_preview, cmdVars, hpc, wpc, wRec,
                    shotVars, mReady, mRecordingEnabled, mMsgEnabled,
                    mParameters, mRequestMemory, poolVars, camera, pure, videoIn, slots >>

\* camera.Uninit(); shared by stopPreviewLocked and the end of pictureThread
TeardownUninit ==
    /\ lpc = "uninit"
    /\ camera' = EngUninit(camera)
    /\ lpc' = "stopstream"
    /\ UNCHANGED << mLock, lstack, restart_preview, cmdVars, hpc, workerVars,
                    shotVars, coordVars, poolVars, pure, videoIn, slots >>

\* camera.StopStreaming()
TeardownStopStreaming ==
    /\ lpc = "stopstream"
    /\ camera' = EngStopStreaming(camera)
    /\ lpc' = "close"
    /\ UNCHANGED << mLock, lstack, restart_preview, cmdVars, hpc, workerVars,
                    shotVars, coordVars, poolVars, pure, videoIn, slots >>

\* camera.Close(), then back to the caller
TeardownClose ==
    /\ lpc = "close"
    /\ camera' = EngClose(camera)
    /\ Return
    /\ UNCHANGED << mLock, restart_preview, cmdVars, hpc, workerVars,
                    shotVars, coordVars, poolVars, pure, videoIn, slots >>

stopPreviewLocked ==
    \/ StopPreviewEntry \/ StopPreviewJoin
    \/ TeardownUninit \/ TeardownStopStreaming \/ TeardownClose

\* ------------------------------------------------------------------------
\* startPreviewLocked
\* ------------------------------------------------------------------------
\* the status goes to the caller of startPreview; initHeapLocked drops it
SPLReturn(r) ==
    /\ cret' = IF mLock = CmdT /\ cmd = "startPreview" THEN r ELSE cret
    /\ spret' = r
    /\ Return

\* the thread slot "new PreviewThread(this)" gets
FreeSlot == CHOOSE w \in Workers :
              /\ wpc[w] = "dead"
              /\ \A v \in Workers : wpc[v] = "dead" => w <= v

\* the entry without the "already running" return
StartPreviewEntryNoCheck ==
    /\ lpc = "spl"
    /\ IF ~mReady THEN SPLReturn("NO_INIT")
       ELSE /\ lpc' = "open"
            /\ UNCHANGED << lstack, cret, spret >>
    /\ UNCHANGED << mLock, restart_preview, cpc, cmd, cprev, hpc, workerVars, shotVars,
                    coordVars, poolVars, camera, pure, videoIn, slots >>

\* the entry that goes on to camera.Open whether the camera is ready or not
StartPreviewEntryNotReadyGoesOn ==
    /\ lpc = "spl"
    /\ IF mPreviewThread # 0 THEN SPLReturn("NO_ERROR")
       ELSE /\ lpc' = "open"
            /\ UNCHANGED << lstack, cret, spret >>
    /\ UNCHANGED << mLock, restart_preview, cpc, cmd, cprev, hpc, workerVars, shotVars, coordVars, poolVars, camera,
                    pure, videoIn, slots >>

\* the two early returns, else go on to camera.Open
StartPreviewEntry ==
    /\ lpc = "spl"
    /\ IF ~mReady THEN SPLReturn("NO_INIT")
       ELSE IF mPreviewThread # 0 THEN SPLReturn("NO_ERROR")
       ELSE /\ lpc' = "open"
            /\ UNCHANGED << lstack, cret, spret >>
    /\ UNCHANGED << mLock, restart_preview, cpc, cmd, cprev, hpc, workerVars, shotVars, coordVars, poolVars, camera,
                    pure, videoIn, slots >>

\* camera.Open(mVideoDevice)
StartPreviewOpen ==
    /\ lpc = "open"
    /\ \E ok \in BOOLEAN :
         /\ camera' = EngOpen(camera, ok)
         /\ IF ok
            THEN lpc' = "init" /\ UNCHANGED << lstack, cret, spret >>
            ELSE SPLReturn("UNKNOWN_ERROR")
    /\ UNCHANGED << mLock, restart_preview, cpc, cmd, cprev, hpc, workerVars, shotVars, coordVars, poolVars,
                    pure, videoIn, slots >>

\* camera.Init, camera.getSize, store the effective size, initHeapLocked()
StartPreviewInit ==
    /\ lpc = "init"
    /\ \E ok \in BOOLEAN :
         LET d == RawSizeOf(mParameters, mRecordingEnabled, mMsgEnabled)
         IN  /\ camera' = EngInit(camera, ok, mParameters.previewFrameRate)
             /\ IF ok
                THEN /\ mParameters' =
                          IF UseVideoSize(mRecordingEnabled, mMsgEnabled)
                          THEN [mParameters EXCEPT !.videoSize = getSize(d[1], d[2])]
                          ELSE [mParameters EXCEPT !.previewSize = getSize(d[1], d[2])]
                     /\ lpc' = "ih1"
                     /\ lstack' = << "startstream" >> \o lstack
                     /\ restart_preview' = FALSE
                     /\ UNCHANGED << cret, spret >>
                ELSE /\ SPLReturn("UNKNOWN_ERROR")
                     /\ UNCHANGED << mParameters, restart_preview >>
    /\ UNCHANGED << mLock, cpc, cmd, cprev, hpc, workerVars, shotVars, mReady,
                    mPreviewThread, mRecordingEnabled, mMsgEnabled,
                    mRequestMemory, poolVars, pure, videoIn, slots >>

\* camera.StartStreaming(), then "mPreviewThread = new PreviewThread(this)"
StartPreviewStream ==
    /\ lpc = "startstream"
    /\ \E ok \in BOOLEAN :
         /\ camera' = EngStartStreaming(camera, ok)
         /\ IF ok
            THEN /\ \E w \in Workers : wpc[w] = "dead"
                 /\ mPreviewThread' = FreeSlot
                 /\ wpc' = [wpc EXCEPT ![FreeSlot] = "check"]
                 /\ exitReq' = [exitReq EXCEPT ![FreeSlot] = FALSE]
                 /\ SPLReturn("NO_ERROR")
            ELSE /\ SPLReturn("UNKNOWN_ERROR")
                 /\ UNCHANGED << mPreviewThread, wpc, exitReq >>
    /\ UNCHANGED << mLock, restart_preview, cpc, cmd, cprev, hpc, wRec, shotVars,
                    mReady, mRecordingEnabled, mMsgEnabled, mParameters,
                    mRequestMemory, poolVars, pure, videoIn, slots >>

startPreviewLocked ==
    \/ StartPreviewEntry \/ StartPreviewOpen \/ StartPreviewInit \/ StartPreviewStream

\* ------------------------------------------------------------------------
\* Leaving the locked region: the Autolock's destructor
\* ------------------------------------------------------------------------
\* pictureThread's locals before the capture
NoFlags == [shutter |-> FALSE, raw |-> FALSE, jpeg |-> FALSE]

\* the first callback pictureThread makes after the lock, or none
PicNextCb(from, f) ==
    IF from = "locked" /\ f.shutter THEN "cb_shutter"
    ELSE IF from \in {"locked", "cb_shutter"} /\ f.raw THEN "cb_raw"
    ELSE IF from \in {"locked", "cb_shutter", "cb_raw"} /\ f.jpeg THEN "cb_jpeg"
    ELSE "none"

\* the flags pictureThread still has to read once it is at callback 'next'
FlagsLeft(next, f) ==
    IF next = "cb_shutter" THEN [f EXCEPT !.shutter = FALSE]
    ELSE IF next = "cb_raw" THEN [NoFlags EXCEPT !.jpeg = f.jpeg]
    ELSE NoFlags

\* a broadcast that wakes nobody
NoBroadcast(c) == c

\* mReadyCond.broadcast(): a thread waiting on mReadyCond, in wait or in
\* waitRelative, is woken
Broadcast(c) ==
    IF c = "wait" THEN "woken"
    ELSE IF c = "twait" THEN "twoken"
    ELSE c

\* the picture thread's lock kept until pictureThread returns
UnlockAfterCallbacks ==
    /\ lpc = "finish"
    /\ mLock' = IF mLock \in {ShotT(i) : i \in Shots} THEN mLock ELSE FreeT
    /\ lpc' = "none"
    /\ cpc' = IF mLock = CmdT THEN "idle"
              ELSE IF mLock = HotT THEN Broadcast(cpc) ELSE cpc
    /\ cmd' = IF mLock = CmdT THEN "none" ELSE cmd
    /\ cret' = IF mLock = CmdT THEN "none" ELSE cret
    /\ cprev' = IF mLock = CmdT THEN FALSE ELSE cprev
    /\ spret' = IF mLock = CmdT THEN "none" ELSE spret
    /\ hpc' = IF mLock # HotT THEN hpc
              ELSE IF ParamsAccepted(CameraParams) THEN "done" ELSE "open"
    /\ spc' = [i \in Shots |->
                 IF mLock = ShotT(i) THEN PicNextCb("locked", plocal[i]) ELSE spc[i]]
    /\ plocal' = [i \in Shots |->
                    IF mLock = ShotT(i)
                    THEN FlagsLeft(PicNextCb("locked", plocal[i]), plocal[i])
                    ELSE plocal[i]]
    /\ UNCHANGED << lstack, restart_preview, workerVars, coordVars, poolVars,
                    camera, pure, videoIn, slots >>

Unlock ==
    /\ lpc = "finish"
    /\ mLock' = FreeT
    /\ lpc' = "none"
    /\ cpc' = IF mLock = CmdT THEN "idle"
              ELSE IF mLock = HotT THEN Broadcast(cpc) ELSE cpc
    /\ cmd' = IF mLock = CmdT THEN "none" ELSE cmd
    /\ cret' = IF mLock = CmdT THEN "none" ELSE cret
    /\ cprev' = IF mLock = CmdT THEN FALSE ELSE cprev
    /\ spret' = IF mLock = CmdT THEN "none" ELSE spret
    /\ hpc' = IF mLock # HotT THEN hpc
              ELSE IF ParamsAccepted(CameraParams) THEN "done" ELSE "open"
    /\ spc' = [i \in Shots |->
                 IF mLock = ShotT(i) THEN PicNextCb("locked", plocal[i]) ELSE spc[i]]
    /\ plocal' = [i \in Shots |->
                    IF mLock = ShotT(i)
                    THEN FlagsLeft(PicNextCb("locked", plocal[i]), plocal[i])
                    ELSE plocal[i]]
    /\ UNCHANGED << lstack, restart_preview, workerVars, coordVars, poolVars,
                    camera, pure, videoIn, slots >>

\* ------------------------------------------------------------------------
\* Commands of the framework thread.  Each takes mLock on entry.
\* ------------------------------------------------------------------------
\* a preview thread is inside its loop
PreviewRunning == \E w \in Workers : wpc[w] # "dead"

\* enter a command whose locked body starts at position 'first'
Enter(name, status, first, stack) ==
    /\ cpc = "idle"
    /\ mLock = FreeT
    /\ mLock' = CmdT
    /\ cpc' = "in"
    /\ cmd' = name
    /\ cret' = status
    /\ cprev' = FALSE
    /\ spret' = "none"
    /\ lpc' = first
    /\ lstack' = stack

\* thread t, holding mLock, calls initHeapLocked as the last thing it does
CallInitHeap(t) ==
    /\ mLock' = t
    /\ lpc' = "ih1"
    /\ lstack' = << "finish" >>
    /\ restart_preview' = FALSE

\* the locked body ends without a call: mLock is taken and released at once
NoCall ==
    /\ mLock' = FreeT
    /\ lpc' = "none"
    /\ lstack' = << >>
    /\ UNCHANGED restart_preview

\* a command that only works under mLock and, when 'calls', ends in
\* initHeapLocked; without the call it has returned when the step is over
Simple(name, status, calls) ==
    /\ cpc = "idle"
    /\ mLock = FreeT
    /\ IF calls
       THEN /\ CallInitHeap(CmdT)
            /\ cpc' = "in"
            /\ cmd' = name
            /\ cret' = status
            /\ cprev' = PreviewRunning
            /\ spret' = "none"
       ELSE /\ NoCall
            /\ UNCHANGED cmdVars

startPreview ==
    /\ Enter("startPreview", "none", "spl", << "finish" >>)
    /\ UNCHANGED << restart_preview, hpc, workerVars, shotVars, coordVars,
                    poolVars, camera, pure, videoIn, slots >>

stopPreview ==
    /\ Enter("stopPreview", "none", "stl", << "finish" >>)
    /\ UNCHANGED << restart_preview, hpc, workerVars, shotVars, coordVars,
                    poolVars, camera, pure, videoIn, slots >>

\* isPreviewEnabled: Autolock; "enabled = (mPreviewThread != 0)", returned
\* as "1" or "0"
isPreviewEnabled ==
    /\ Enter("isPreviewEnabled", IF mPreviewThread # 0 THEN "1" ELSE "0",
             "finish", << >>)
    /\ UNCHANGED << restart_preview, hpc, workerVars, shotVars, coordVars,
                    poolVars, camera, pure, videoIn, slots >>

startRecording ==
    /\ Simple("startRecording", "NO_ERROR",
              ~mRecordingEnabled /\ CAMERA_MSG_VIDEO_FRAME \in mMsgEnabled)
    /\ mRecordingEnabled' = TRUE
    /\ UNCHANGED << hpc, workerVars, shotVars, mReady, mPreviewThread,
                    mMsgEnabled, mParameters, mRequestMemory, poolVars, camera,
                    pure, videoIn, slots >>

stopRecording ==
    /\ Simple("stopRecording", "none",
              mRecordingEnabled /\ CAMERA_MSG_VIDEO_FRAME \in mMsgEnabled)
    /\ mRecordingEnabled' = FALSE
    /\ UNCHANGED << hpc, workerVars, shotVars, mReady, mPreviewThread,
                    mMsgEnabled, mParameters, mRequestMemory, poolVars, camera,
                    pure, videoIn, slots >>

\* "(msgType & VIDEO_FRAME) && (mMsgEnabled ^ old) & VIDEO_FRAME && mRecordingEnabled"
MsgTouchesRecording(msgType, old, new) ==
    /\ CAMERA_MSG_VIDEO_FRAME \in msgType
    /\ (CAMERA_MSG_VIDEO_FRAME \in old) # (CAMERA_MSG_VIDEO_FRAME \in new)
    /\ mRecordingEnabled

enableMsgType(msgType) ==
    /\ Simple("enableMsgType", "none",
              MsgTouchesRecording(msgType, mMsgEnabled, mMsgEnabled \cup msgType))
    /\ mMsgEnabled' = mMsgEnabled \cup msgType
    /\ UNCHANGED << hpc, workerVars, shotVars, mReady, mPreviewThread,
                    mRecordingEnabled, mParameters, mRequestMemory, poolVars, camera,
                    pure, videoIn, slots >>

disableMsgType(msgType) ==
    /\ Simple("disableMsgType", "none",
              MsgTouchesRecording(msgType, mMsgEnabled, mMsgEnabled \ msgType))
    /\ mMsgEnabled' = mMsgEnabled \ msgType
    /\ UNCHANGED << hpc, workerVars, shotVars, mReady, mPreviewThread,
                    mRecordingEnabled, mParameters, mRequestMemory, poolVars, camera,
                    pure, videoIn, slots >>

\* the status setParametersLocked returns for params
SetParametersStatus(params) ==
    IF params = mParameters THEN "NO_ERROR"
    ELSE IF ~ParamsAccepted(params) THEN "BAD_VALUE"
    ELSE "NO_ERROR"

\* setParametersLocked without the "trivially accept it" test
ParamsStoredUnchanged(params) == ParamsAccepted(params)

\* setParametersLocked stores params and goes on to initHeapLocked, unless
\* it trivially accepts them or rejects them
ParamsStored(params) == params # mParameters /\ ParamsAccepted(params)

setParameters(params) ==
    /\ cpc = "idle"
    /\ mLock = FreeT
    /\ cpc' = "in"
    /\ cmd' = "setParameters"
    /\ cret' = SetParametersStatus(params)
    /\ cprev' = PreviewRunning
    /\ spret' = "none"
    /\ IF ParamsStored(params)
       THEN /\ mParameters' = params
            /\ CallInitHeap(CmdT)
       ELSE /\ mLock' = CmdT
            /\ lpc' = "finish"
            /\ UNCHANGED << lstack, restart_preview, mParameters >>
    /\ UNCHANGED << hpc, workerVars, shotVars, mReady, mPreviewThread,
                    mRecordingEnabled, mMsgEnabled, mRequestMemory, poolVars, camera,
                    pure, videoIn, slots >>

\* setCallbacks installs the framework's allocator and callbacks
setCallbacksWith(get_memory) ==
    /\ Simple("setCallbacks", "none", FALSE)
    /\ mRequestMemory' = get_memory
    /\ UNCHANGED << hpc, workerVars, shotVars, mReady, mPreviewThread,
                    mRecordingEnabled, mMsgEnabled, mParameters, poolVars, camera,
                    pure, videoIn, slots >>

setCallbacks == setCallbacksWith(PlentyMemory)

\* setCallbacks of a framework that may be short of memory
setCallbacksAnyMemory == \E get_memory \in Allocators : setCallbacksWith(get_memory)

\* the slot a thread made by createThread gets
FreeShot == CHOOSE i \in Shots :
              /\ spc[i] = "none"
              /\ \A j \in Shots : spc[j] = "none" => i <= j

\* takePicture: createThread(beginPictureThread)
takePicture ==
    /\ Simple("takePicture", "NO_ERROR", FALSE)
    /\ \E i \in Shots : spc[i] = "none"
    /\ spc' = [spc EXCEPT ![FreeShot] = "start"]
    /\ UNCHANGED << hpc, workerVars, plocal, coordVars, poolVars, camera, pure, videoIn, slots >>

\* setAutoFocus: createThread(beginAutoFocusThread), which makes the focus
\* callback when the focus message is enabled
setAutoFocus ==
    /\ Simple("setAutoFocus", "NO_ERROR", FALSE)
    /\ \E i \in Shots : spc[i] = "none"
    /\ spc' = IF CAMERA_MSG_FOCUS \in mMsgEnabled
              THEN [spc EXCEPT ![FreeShot] = "cb_focus"] ELSE spc
    /\ UNCHANGED << hpc, workerVars, plocal, coordVars, poolVars, camera, pure, videoIn, slots >>

\* awaitReady: Autolock; with mReady set it has returned when the step is
\* over, else mReadyCond.wait(mLock) releases mLock and blocks in one step
AwaitReadyEnter ==
    /\ cpc = "idle"
    /\ mLock = FreeT
    /\ IF mReady
       THEN UNCHANGED << cpc, cmd >>
       ELSE cpc' = "wait" /\ cmd' = "awaitReady"
    /\ UNCHANGED << lockVars, cret, cprev, spret, hpc,
                    workerVars, shotVars, coordVars, poolVars, camera, pure, videoIn, slots >>

\* mReadyCond.wait returns without a broadcast
AwaitReadySpurious ==
    /\ cpc = "wait"
    /\ cpc' = "woken"
    /\ UNCHANGED << lockVars, cmd, cret, cprev, spret, hpc, workerVars,
                    shotVars, coordVars, poolVars, camera, pure, videoIn, slots >>

\* the woken thread takes mLock again and goes round the loop
AwaitReadyWake ==
    /\ cpc = "woken"
    /\ mLock = FreeT
    /\ IF mReady
       THEN /\ mLock' = CmdT
            /\ cpc' = "in"
            /\ lpc' = "finish"
       ELSE /\ cpc' = "wait"
            /\ UNCHANGED << mLock, lpc >>
    /\ UNCHANGED << lstack, restart_preview, cmd, cret, cprev, spret, hpc,
                    workerVars, shotVars, coordVars, poolVars, camera, pure, videoIn, slots >>

awaitReady == AwaitReadyEnter \/ AwaitReadySpurious \/ AwaitReadyWake

\* awaitReady(reltime): Autolock; with mReady set it returns true, else
\* mReadyCond.waitRelative(mLock, reltime) releases mLock and blocks
AwaitReadyForEnter ==
    /\ cpc = "idle"
    /\ mLock = FreeT
    /\ cmd' = "awaitReadyFor"
    /\ IF mReady
       THEN /\ mLock' = CmdT
            /\ cpc' = "in"
            /\ lpc' = "finish"
            /\ cret' = "true"
       ELSE /\ cpc' = "twait"
            /\ UNCHANGED << mLock, lpc, cret >>
    /\ UNCHANGED << lstack, restart_preview, cprev, spret, hpc,
                    workerVars, shotVars, coordVars, poolVars, camera, pure, videoIn, slots >>

\* waitRelative is woken without a broadcast
AwaitReadyForSpurious ==
    /\ cpc = "twait"
    /\ cpc' = "twoken"
    /\ UNCHANGED << lockVars, cmd, cret, cprev, spret, hpc, workerVars,
                    shotVars, coordVars, poolVars, camera, pure, videoIn, slots >>

\* reltime has passed: waitRelative will return TIMED_OUT once it has
\* mLock again
AwaitReadyForTimeout ==
    /\ cpc = "twait"
    /\ cpc' = "timedout"
    /\ UNCHANGED << lockVars, cmd, cret, cprev, spret, hpc, workerVars,
                    shotVars, coordVars, poolVars, camera, pure, videoIn, slots >>

\* waitRelative takes mLock again and returns: TIMED_OUT ends the call with
\* false, any other status goes round the loop
AwaitReadyForWake ==
    /\ cpc \in {"twoken", "timedout"}
    /\ mLock = FreeT
    /\ IF cpc = "timedout" \/ mReady
       THEN /\ mLock' = CmdT
            /\ cpc' = "in"
            /\ lpc' = "finish"
            /\ cret' = IF cpc = "timedout" THEN "false" ELSE "true"
       ELSE /\ cpc' = "twait"
            /\ UNCHANGED << mLock, lpc, cret >>
    /\ UNCHANGED << lstack, restart_preview, cmd, cprev, spret, hpc,
                    workerVars, shotVars, coordVars, poolVars, camera, pure, videoIn, slots >>

awaitReadyFor ==
    \/ AwaitReadyForEnter \/ AwaitReadyForSpurious
    \/ AwaitReadyForTimeout \/ AwaitReadyForWake

Command ==
    \/ awaitReady
    \/ startPreview \/ stopPreview \/ startRecording \/ stopRecording
    \/ \E m \in MsgInputs : enableMsgType(m)
    \/ \E m \in MsgInputs : disableMsgType(m)
    \/ \E p \in ParamInputs : setParameters(p)
    \/ setCallbacks \/ takePicture \/ setAutoFocus

\* ------------------------------------------------------------------------
\* Hotplug thread: HotPlugThread::threadLoop and tryOpenCamera
\* ------------------------------------------------------------------------
\* a hotplug thread that ends when camera.Open fails
HotPlugOpenNoRetry ==
    /\ hpc = "open"
    /\ \E ok \in BOOLEAN :
         /\ camera' = EngOpen(camera, ok)
         /\ hpc' = IF ok THEN "lock" ELSE "done"
    /\ UNCHANGED << lockVars, cmdVars, workerVars, shotVars, coordVars, poolVars,
                    pure, videoIn, slots >>

\* camera.Open(videoFile) and the catalog getters, without mLock; after a
\* failure the thread sleeps a second and threadLoop is called again
HotPlugOpen ==
    /\ hpc = "open"
    /\ \E ok \in BOOLEAN :
         /\ camera' = EngOpen(camera, ok)
         /\ hpc' = IF ok THEN "lock" ELSE "open"
    /\ UNCHANGED << lockVars, cmdVars, workerVars, shotVars, coordVars, poolVars,
                    pure, videoIn, slots >>

\* mReady = true and fc.set(*this) without waiting for mLock
HotPlugReadyNoLock ==
    /\ hpc = "lock"
    /\ mReady' = TRUE
    /\ mParameters' = IF ParamsStored(CameraParams) THEN CameraParams ELSE mParameters
    /\ IF ParamsStored(CameraParams)
       THEN CallInitHeap(HotT)
       ELSE /\ mLock' = HotT
            /\ lpc' = "finish"
            /\ UNCHANGED << lstack, restart_preview >>
    /\ hpc' = "locked"
    /\ UNCHANGED << cmdVars, workerVars, shotVars, mPreviewThread,
                    mRecordingEnabled, mMsgEnabled, mRequestMemory, poolVars, camera,
                    pure, videoIn, slots >>

\* Autolock; mReady = true; fc.set(*this); the broadcast is at the unlock
HotPlugReady ==
    /\ hpc = "lock"
    /\ mLock = FreeT
    /\ mReady' = TRUE
    /\ mParameters' = IF ParamsStored(CameraParams) THEN CameraParams ELSE mParameters
    /\ IF ParamsStored(CameraParams)
       THEN CallInitHeap(HotT)
       ELSE /\ mLock' = HotT
            /\ lpc' = "finish"
            /\ UNCHANGED << lstack, restart_preview >>
    /\ hpc' = "locked"
    /\ UNCHANGED << cmdVars, workerVars, shotVars, mPreviewThread,
                    mRecordingEnabled, mMsgEnabled, mRequestMemory, poolVars, camera,
                    pure, videoIn, slots >>

HotPlug == HotPlugOpen \/ HotPlugReady

\* ------------------------------------------------------------------------
\* Still-picture thread: pictureThread
\* ------------------------------------------------------------------------
\* Autolock; remember the shutter flag; stop the preview
PictureBegin(i) ==
    /\ spc[i] = "start"
    /\ mLock = FreeT
    /\ mLock' = ShotT(i)
    /\ spc' = [spc EXCEPT ![i] = "locked"]
    /\ plocal' = [plocal EXCEPT ![i] =
                    [shutter |-> CAMERA_MSG_SHUTTER \in mMsgEnabled,
                     raw |-> FALSE, jpeg |-> FALSE]]
    /\ IF mPreviewThread # 0
       THEN lpc' = "stl" /\ lstack' = << "p_open", "finish" >>
       ELSE lpc' = "p_open" /\ lstack' = << "finish" >>
    /\ UNCHANGED << restart_preview, cmdVars, hpc, workerVars, coordVars,
                    poolVars, camera, pure, videoIn, slots >>

\* camera.Open(mVideoDevice); on failure nothing is captured
PictureOpen ==
    /\ lpc = "p_open"
    /\ \E ok \in BOOLEAN :
         /\ camera' = EngOpen(camera, ok)
         /\ lpc' = IF ok THEN "p_init" ELSE "finish"
    /\ UNCHANGED << mLock, lstack, restart_preview, cmdVars, hpc, workerVars,
                    shotVars, coordVars, poolVars, pure, videoIn, slots >>

\* camera.Init(w, h, 1) unchecked; getSize; setPictureSize; initHeapLocked()
PictureInit ==
    /\ lpc = "p_init"
    /\ \E ok \in BOOLEAN :
         camera' = EngInit(camera, ok, 1)
    /\ mParameters' = [mParameters EXCEPT !.pictureSize =
                          getSize(mParameters.pictureSize[1], mParameters.pictureSize[2])]
    /\ lpc' = "ih1"
    /\ lstack' = << "p_start" >> \o lstack
    /\ restart_preview' = FALSE
    /\ UNCHANGED << mLock, cmdVars, hpc, workerVars, shotVars, mReady,
                    mPreviewThread, mRecordingEnabled, mMsgEnabled,
                    mRequestMemory, poolVars, pure, videoIn, slots >>

\* camera.StartStreaming(), unchecked
PictureStartStreaming ==
    /\ lpc = "p_start"
    /\ \E ok \in BOOLEAN : camera' = EngStartStreaming(camera, ok)
    /\ lpc' = "p_grab"
    /\ UNCHANGED << mLock, lstack, restart_preview, cmdVars, hpc, workerVars,
                    shotVars, coordVars, poolVars, pure, videoIn, slots >>

\* the stabilisation grabs, then the raw flag and the jpeg heap
PictureCapture ==
    /\ lpc = "p_grab"
    /\ \E i \in Shots :
         /\ mLock = ShotT(i)
         /\ plocal' = [plocal EXCEPT
                ![i].raw = CAMERA_MSG_RAW_IMAGE \in mMsgEnabled,
                ![i].jpeg = CAMERA_MSG_COMPRESSED_IMAGE \in mMsgEnabled]
         /\ IF CAMERA_MSG_COMPRESSED_IMAGE \in mMsgEnabled
            THEN \E fileSize \in JpegFileSizes(sz.mJpegPictureBufferSize) :
                   heap' = [heap EXCEPT !["mJpegPictureHeap"] =
                                           RequestMemory(fileSize, i)]
            ELSE UNCHANGED heap
    /\ lpc' = "uninit"
    /\ UNCHANGED << mLock, lstack, restart_preview, cmdVars, hpc, workerVars,
                    spc, coordVars, sz, camera, pure, videoIn, slots >>

\* a shutter, raw or jpeg callback returns; the next one is made
PictureCallback(i) ==
    /\ spc[i] \in {"cb_shutter", "cb_raw", "cb_jpeg"}
    /\ spc' = [spc EXCEPT ![i] = PicNextCb(spc[i], plocal[i])]
    /\ plocal' = [plocal EXCEPT
                     ![i] = FlagsLeft(PicNextCb(spc[i], plocal[i]), plocal[i])]
    /\ UNCHANGED << lockVars, cmdVars, hpc, workerVars, coordVars,
                    poolVars, camera, pure, videoIn, slots >>

pictureThread ==
    \/ \E i \in Shots : PictureBegin(i)
    \/ PictureOpen \/ PictureInit \/ PictureStartStreaming \/ PictureCapture
    \/ \E i \in Shots : PictureCallback(i)

\* ------------------------------------------------------------------------
\* Autofocus thread: autoFocusThread
\* ------------------------------------------------------------------------
\* the focus callback returns and the thread ends
AutoFocusCallback(i) ==
    /\ spc[i] = "cb_focus"
    /\ spc' = [spc EXCEPT ![i] = "none"]
    /\ UNCHANGED << lockVars, cmdVars, hpc, workerVars, plocal, coordVars,
                    poolVars, camera, pure, videoIn, slots >>

autoFocusThread == \E i \in Shots : AutoFocusCallback(i)

\* ------------------------------------------------------------------------
\* Preview thread: PreviewThread::threadLoop and previewThread
\* ------------------------------------------------------------------------
\* threadLoop returned true: exit when an exit was requested, else loop
LoopAgain(w) == IF exitReq[w] THEN "dead" ELSE "check"

\* "if (mMsgEnabled & CAMERA_MSG_PREVIEW_FRAME)" and what follows
PreviewStage(w) ==
    IF CAMERA_MSG_PREVIEW_FRAME \in mMsgEnabled THEN "cb_prev" ELSE LoopAgain(w)

\* "if (mRecordingEnabled && mMsgEnabled & VIDEO_FRAME)" and what follows
RecordingStage(w) ==
    IF /\ UseVideoSize(mRecordingEnabled, mMsgEnabled)
       /\ heap["mRecordingHeap"].alloc
    THEN "cb_rec"
    ELSE PreviewStage(w)

\* "rawBase = frame": the raw frame is grabbed straight into the client's
\* preview buffer
PassThrough ==
    /\ sz.mPreviewFmt = PIXEL_FORMAT_YCrCb_422_I
    /\ ~mRecordingEnabled \/ sz.mRawPreviewFrameSize = sz.mPreviewFrameSize

\* the same with an Autolock at the top of previewThread
PreviewSelectLocked(w) ==
    /\ wpc[w] = "check"
    /\ mLock = FreeT
    /\ mLock' = PrevT(w)
    /\ IF heap["mRawPreviewHeap"].alloc /\ heap["mPreviewHeap"].alloc
       THEN /\ wpc' = [wpc EXCEPT ![w] = "grab"]
            /\ wRec' = [wRec EXCEPT ![w] = mRecordingEnabled]
       ELSE /\ wpc' = [wpc EXCEPT ![w] = "dead"]
            /\ UNCHANGED wRec
    /\ UNCHANGED << lpc, lstack, restart_preview, cmdVars, hpc, exitReq,
                    shotVars, coordVars, poolVars, camera, pure, videoIn, slots >>

\* the buffer checks and the choice of rawBase, made without mLock
PreviewSelect(w) ==
    /\ wpc[w] = "check"
    /\ IF heap["mRawPreviewHeap"].alloc /\ heap["mPreviewHeap"].alloc
       THEN /\ wpc' = [wpc EXCEPT ![w] = "grab"]
            /\ wRec' = [wRec EXCEPT ![w] = mRecordingEnabled]
       ELSE /\ wpc' = [wpc EXCEPT ![w] = "dead"]
            /\ UNCHANGED wRec
    /\ UNCHANGED << lockVars, cmdVars, hpc, exitReq, shotVars, coordVars,
                    poolVars, camera, pure, videoIn, slots >>

\* every status other than a hard error goes on to the frame's callbacks
AfterGrabTimeoutIsFrame(w, status) ==
    IF status \notin {"NO_ERROR", "TIMED_OUT"} THEN "dead"
    ELSE RecordingStage(w)

\* where the thread goes with the status GrabRawFrame returned
AfterGrab(w, status) ==
    IF status = "TIMED_OUT" THEN LoopAgain(w)
    ELSE IF status # "NO_ERROR" THEN "dead"
    ELSE RecordingStage(w)

\* camera.GrabRawFrame returns status
PreviewGrabResult(w, status) ==
    /\ wpc[w] = "grab"
    /\ wpc' = [wpc EXCEPT ![w] = AfterGrab(w, status)]
    /\ wRec' = [wRec EXCEPT ![w] = FALSE]
    /\ UNCHANGED << lockVars, cmdVars, hpc, exitReq, shotVars,
                    coordVars, poolVars, camera, pure, videoIn, slots >>

\* camera.GrabRawFrame returns
PreviewGrab(w) == \E status \in GrabResults : PreviewGrabResult(w, status)

\* where the thread goes when the callback it is in returns
AfterCallback(w) ==
    IF wpc[w] \in {"cb_rec", "cbw_rec"} THEN PreviewStage(w) ELSE LoopAgain(w)

\* the recording or preview callback returns
PreviewCallbackReturn(w) ==
    /\ wpc[w] \in {"cb_rec", "cb_prev"}
    /\ wpc' = [wpc EXCEPT ![w] = AfterCallback(w)]
    /\ UNCHANGED << lockVars, cmdVars, hpc, exitReq, wRec, shotVars,
                    coordVars, poolVars, camera, pure, videoIn, slots >>

\* the callback calls a command of this object, which waits for mLock
PreviewCallbackReenter(w) ==
    /\ wpc[w] \in {"cb_rec", "cb_prev"}
    /\ wpc' = [wpc EXCEPT ![w] = IF wpc[w] = "cb_rec" THEN "cbw_rec" ELSE "cbw_prev"]
    /\ UNCHANGED << lockVars, cmdVars, hpc, exitReq, wRec, shotVars,
                    coordVars, poolVars, camera, pure, videoIn, slots >>

\* the command called from the callback gets mLock, runs, and all return
PreviewCallbackLocked(w) ==
    /\ wpc[w] \in {"cbw_rec", "cbw_prev"}
    /\ mLock = FreeT
    /\ wpc' = [wpc EXCEPT ![w] = AfterCallback(w)]
    /\ UNCHANGED << lockVars, cmdVars, hpc, exitReq, wRec, shotVars,
                    coordVars, poolVars, camera, pure, videoIn, slots >>

previewThread(w) ==
    \/ PreviewSelect(w) \/ PreviewGrab(w)
    \/ PreviewCallbackReturn(w) \/ PreviewCallbackReenter(w)
    \/ PreviewCallbackLocked(w)

\* ------------------------------------------------------------------------
\* Frame pipeline: the copy regions of fillPreviewWindow and of the preview
\* callback of previewThread
\* ------------------------------------------------------------------------
\* widths and heights of frames and of preview windows; 0 is the window
\* whose geometry could not be negotiated
FrameWidths == { 0, 2, 3, 320, 640, 800 }

FrameHeights == { 0, 2, 3, 240, 480, 600 }

\* x >> 1 of a signed int
ShiftRight1(x) == x \div 2

\* fillPreviewWindow(yuyv, srcWidth, srcHeight) with a window of
\* mPreviewWinWidth x mPreviewWinHeight: the rectangle it converts, the
\* byte offset into the source and the place in the window
fillPreviewWindow(srcWidth, srcHeight, mPreviewWinWidth, mPreviewWinHeight) ==
    LET srcStride == srcWidth * 2
        xStart == ShiftRight1(mPreviewWinWidth - srcWidth)
        yStart == ShiftRight1(mPreviewWinHeight - srcHeight)
    IN  [ width |-> IF xStart < 0 THEN srcWidth + xStart ELSE srcWidth,
          height |-> IF yStart < 0 THEN srcHeight + yStart ELSE srcHeight,
          srcBytes |-> (IF xStart < 0 THEN ShiftRight1(-xStart) * 2 ELSE 0)
                       + (IF yStart < 0 THEN ShiftRight1(-yStart) * srcStride ELSE 0),
          srcStride |-> srcStride,
          xStart |-> IF xStart < 0 THEN 0 ELSE xStart,
          yStart |-> IF yStart < 0 THEN 0 ELSE yStart ]

\* the preview callback of previewThread with a preview of width x height
\* and a raw frame of mRawPreviewWidth x mRawPreviewHeight: both pointers
\* start at the first pixel
previewCrop(width, height, mRawPreviewWidth, mRawPreviewHeight) ==
    [ width |-> IF width > mRawPreviewWidth THEN mRawPreviewWidth ELSE width,
      height |-> IF height > mRawPreviewHeight THEN mRawPreviewHeight ELSE height,
      srcBytes |-> 0,
      srcStride |-> mRawPreviewWidth * 2,
      xStart |-> 0,
      yStart |-> 0 ]

\* frameTimeout(): 1.2 frame periods in nanoseconds
frameTimeout == 1200000000 \div mParameters.previewFrameRate

\* every variable of the camera object and of its threads
hardwareVars == << lockVars, cmdVars, hpc, workerVars, shotVars, coordVars,
                   poolVars, camera, slots >>

\* fillPreviewWindow is called with a frame and a window
CallFillPreviewWindow ==
    /\ pure = NoFunction
    /\ \E sw \in FrameWidths \ {0}, sh \in FrameHeights \ {0},
          ww \in FrameWidths, wh \in FrameHeights :
         pure' = [ fn |-> "fillPreviewWindow",
                   src |-> << sw, sh >>, dst |-> << ww, wh >>,
                   out |-> fillPreviewWindow(sw, sh, ww, wh) ]
    /\ UNCHANGED << hardwareVars, videoIn >>

\* the preview callback part of previewThread runs on a frame
CallPreviewCrop ==
    /\ pure = NoFunction
    /\ \E sw \in FrameWidths \ {0}, sh \in FrameHeights \ {0},
          pw \in FrameWidths \ {0}, ph \in FrameHeights \ {0} :
         pure' = [ fn |-> "previewCrop",
                   src |-> << sw, sh >>, dst |-> << pw, ph >>,
                   out |-> previewCrop(pw, ph, sw, sh) ]
    /\ UNCHANGED << hardwareVars, videoIn >>

\* the function returns
FunctionReturns ==
    /\ pure # NoFunction
    /\ pure' = NoFunction
    /\ UNCHANGED << hardwareVars, videoIn >>

\* ------------------------------------------------------------------------
\* The capture engine driven on its own, one call at a time, through its
\* state machine and through the calls that are safe in every state
\* ------------------------------------------------------------------------
\* frame rates Init is asked for
EngineRates == { 1, 30 }

\* every variable of the coordinator: all but the engine
coordinatorVars == << lockVars, cmdVars, hpc, workerVars, shotVars, coordVars,
                      poolVars, slots >>

\* the engine call that has returned: its name, whether it repeats the call
\* before it, its status
EngineCall(name, status) ==
    pure' = [fn |-> name, again |-> pure.fn = name, status |-> status]

\* no GrabRawFrame is between its dequeueBuf and its enqueueBuf
EngineIdle == pure.fn # "dequeueBuf"

StatusOf(ok) == IF ok THEN "NO_ERROR" ELSE "UNKNOWN_ERROR"

\* the slots queued to the driver
QueuedSlots(ring) == { ring.queue[i] : i \in 1..Len(ring.queue) }

\* dequeueBuf: the driver hands the oldest queued slot to the application
DequeueSlot(ring) ==
    [queue |-> Tail(ring.queue), held |-> ring.held \cup {Head(ring.queue)}]

\* enqueueBuf that queues the slot and still counts it as the application's
EnqueueSlotKeepHeld(ring, slot) ==
    [queue |-> Append(ring.queue, slot), held |-> ring.held]

\* enqueueBuf: the application gives the slot back to the driver
EnqueueSlot(ring, slot) ==
    [queue |-> Append(ring.queue, slot), held |-> ring.held \ {slot}]

EngineOpen ==
    /\ EngineIdle /\ ~camera.open
    /\ \E ok \in BOOLEAN :
         /\ camera' = EngOpen(camera, ok)
         /\ EngineCall("Open", StatusOf(ok))
    /\ UNCHANGED << coordinatorVars, videoIn >>

\* Init maps every slot and queues it to the driver
EngineInit ==
    /\ EngineIdle /\ camera.open /\ camera.mapped = 0
    /\ \E ok \in BOOLEAN, fps \in EngineRates :
         /\ camera' = EngInit(camera, ok, fps)
         /\ videoIn' = IF ok THEN FullRing ELSE NoRing
         /\ EngineCall("Init", StatusOf(ok))
    /\ UNCHANGED coordinatorVars

EngineStartStreaming ==
    /\ EngineIdle /\ camera.mapped = NB_BUFFER /\ ~camera.streaming
    /\ \E ok \in BOOLEAN :
         /\ camera' = EngStartStreaming(camera, ok)
         /\ EngineCall("StartStreaming", StatusOf(ok))
    /\ UNCHANGED << coordinatorVars, videoIn >>

\* GrabRawFrame up to the end of dequeueBuf: a frame is ready and its slot
\* is the application's, or the call returns TIMED_OUT or an I/O error
EngineDequeueBuf ==
    /\ EngineIdle /\ camera.streaming /\ camera.mapped = NB_BUFFER
    /\ \E status \in GrabResults :
         IF status = "NO_ERROR"
         THEN /\ videoIn.queue # << >>
              /\ videoIn' = DequeueSlot(videoIn)
              /\ pure' = [fn |-> "dequeueBuf", slot |-> Head(videoIn.queue)]
         ELSE /\ EngineCall("GrabRawFrame", status)
              /\ UNCHANGED videoIn
    /\ UNCHANGED << coordinatorVars, camera >>

\* the rest of GrabRawFrame: the frame is copied and enqueueBuf gives the
\* slot back; when the driver refuses it the call fails and the slot stays
\* with the application
EngineEnqueueBuf ==
    /\ pure.fn = "dequeueBuf"
    /\ \E ok \in BOOLEAN :
         /\ videoIn' = IF ok THEN EnqueueSlot(videoIn, pure.slot) ELSE videoIn
         /\ pure' = [fn |-> "GrabRawFrame", again |-> FALSE,
                     status |-> StatusOf(ok), slot |-> pure.slot]
    /\ UNCHANGED << coordinatorVars, camera >>

EngineStopStreaming ==
    /\ EngineIdle
    /\ camera' = EngStopStreaming(camera)
    /\ EngineCall("StopStreaming", "NO_ERROR")
    /\ UNCHANGED << coordinatorVars, videoIn >>

\* Uninit unmaps every slot
EngineUninit ==
    /\ EngineIdle
    /\ camera' = EngUninit(camera)
    /\ videoIn' = NoRing
    /\ EngineCall("Uninit", "NO_ERROR")
    /\ UNCHANGED coordinatorVars

EngineClose ==
    /\ EngineIdle
    /\ camera' = EngClose(camera)
    /\ EngineCall("Close", "NO_ERROR")
    /\ UNCHANGED << coordinatorVars, videoIn >>

\* ------------------------------------------------------------------------
\* The configuration file: CameraSpec::loadFromFile, and the parseConfig of
\* CameraFactory that read the orientation before it, on every file of up
\* to MaxLines lines. A line is the sequence of its words.
\* ------------------------------------------------------------------------
MaxLines == 3       \* lines of a configuration file

CAMERA_FACING_BACK == 0
CAMERA_FACING_FRONT == 1
CAMERA_FACING_EXTERNAL == 2

\* the words found where an orientation is expected
OrientationWords == { "0", "90", "180", "270", "45", "abc" }

\* the files of up to MaxLines lines taken from a set of lines
ConfigFiles(lineSet) == UNION { [1..n -> lineSet] : n \in 0..MaxLines }

\* lines given to loadFromFile: blank, comment, role, orientation with a
\* word too few or too many, orientation with each word
LoadLines ==
    { << >>, << "#" >>, << "role", "front" >>, << "orientation" >>,
      << "orientation", "90", "deg" >> }
    \cup { << "orientation", o >> : o \in OrientationWords }

\* a CameraSpec as constructed; the device lists and the preferred size
\* are not carried
DefaultCameraSpec == [facing |-> CAMERA_FACING_EXTERNAL, orientation |-> 0]

\* the body of loadFromFile's loop on one line
loadLine(spec, words) ==
    IF words = << >> THEN spec
    ELSE IF words[1] = "#" THEN spec
    ELSE IF words[1] = "role" /\ Len(words) = 2
    THEN IF words[2] = "front"
         THEN [spec EXCEPT !.facing = CAMERA_FACING_FRONT]
         ELSE IF words[2] = "back"
         THEN [spec EXCEPT !.facing = CAMERA_FACING_BACK]
         ELSE spec
    ELSE IF words[1] = "orientation" /\ Len(words) = 2
    THEN IF words[2] = "0" THEN [spec EXCEPT !.orientation = 0]
         ELSE IF words[2] = "90" THEN [spec EXCEPT !.orientation = 90]
         ELSE IF words[2] = "180" THEN [spec EXCEPT !.orientation = 180]
         ELSE IF words[2] = "270" THEN [spec EXCEPT !.orientation = 270]
         ELSE spec      \* a warning is logged
    ELSE spec           \* "Unrecognized config line"

RECURSIVE loadLines(_, _)
loadLines(spec, lines) ==
    IF lines = << >> THEN spec
    ELSE loadLines(loadLine(spec, Head(lines)), Tail(lines))

\* loadFromFile on a newly constructed CameraSpec: an empty text is an
\* error, every other text is read line by line
loadFromFile(lines) ==
    IF lines = << >>
    THEN [status |-> "UNKNOWN_ERROR", spec |-> DefaultCameraSpec]
    ELSE [status |-> "NO_ERROR", spec |-> loadLines(DefaultCameraSpec, lines)]

\* lines given to parseConfig: blank, comment, a camera without its
\* orientation, a line that is no camera, a camera with each word
ParseLines ==
    { << >>, << "#" >>, << "front", "/dev/video0" >>,
      << "other", "/dev/video2", "90" >> }
    \cup { << "back", "/dev/video1", o >> : o \in OrientationWords }

\* what arg1 and arg3 may hold before the first sscanf: they are not
\* initialized
UninitWords == { "front", "junk" }
UninitInts == { 0, 90, 45 }

\* sscanf's %d reads the word as an integer, or fails
ScansInt(word) == word \in { "0", "90", "180", "270", "45" }

ScanInt(word) ==
    CASE word = "0" -> 0
      [] word = "90" -> 90
      [] word = "180" -> 180
      [] word = "270" -> 270
      [] word = "45" -> 45

\* newCameraConfig(facing, location, orientation) adds a camera
newCameraConfig(cameras, facing, orientation) ==
    Append(cameras, [facing |-> facing, orientation |-> orientation])

\* the body of parseConfig's loop on one line: sscanf assigns the fields it
\* finds and leaves the others as the line before left them
parseLine(st, words) ==
    IF words # << >> /\ words[1] = "#" THEN st
    ELSE LET arg1 == IF Len(words) >= 1 THEN words[1] ELSE st.arg1
             scanned == IF Len(words) >= 3 /\ ScansInt(words[3])
                        THEN ScanInt(words[3]) ELSE st.arg3
             arg3 == IF scanned # 0 /\ scanned # 90 /\ scanned # 180
                        /\ scanned # 270
                     THEN 0 ELSE scanned
         IN [ arg1 |-> arg1, arg3 |-> arg3,
              cameras |->
                IF arg1 = "front"
                THEN newCameraConfig(st.cameras, CAMERA_FACING_FRONT, arg3)
                ELSE IF arg1 = "back"
                THEN newCameraConfig(st.cameras, CAMERA_FACING_BACK, arg3)
                ELSE st.cameras ]

RECURSIVE parseLines(_, _)
parseLines(st, lines) ==
    IF lines = << >> THEN st
    ELSE parseLines(parseLine(st, Head(lines)), Tail(lines))

\* parseConfig on a file that exists: the cameras it configures
parseConfig(lines, arg1, arg3) ==
    parseLines([arg1 |-> arg1, arg3 |-> arg3, cameras |-> << >>],
               lines).cameras

\* a CameraSpec is loaded from a file
CallLoadFromFile ==
    /\ pure = NoFunction
    /\ \E lines \in ConfigFiles(LoadLines) :
         pure' = [ fn |-> "loadFromFile", lines |-> lines,
                   out |-> loadFromFile(lines) ]
    /\ UNCHANGED << hardwareVars, videoIn >>

\* the factory parses a file
CallParseConfig ==
    /\ pure = NoFunction
    /\ \E lines \in ConfigFiles(ParseLines),
          arg1 \in UninitWords, arg3 \in UninitInts :
         pure' = [ fn |-> "parseConfig", lines |-> lines,
                   uninit |-> << arg1, arg3 >>,
                   out |-> parseConfig(lines, arg1, arg3) ]
    /\ UNCHANGED << hardwareVars, videoIn >>

\* ------------------------------------------------------------------------
\* Specifications
\* ------------------------------------------------------------------------
Locked == initHeapLocked \/ stopPreviewLocked \/ startPreviewLocked \/ Unlock

Next ==
    \/ Command
    \/ HotPlug
    \/ Locked
    \/ pictureThread
    \/ autoFocusThread
    \/ \E w \in Workers : previewThread(w)

Spec == Init /\ [][Next]_vars

\* Scheduling: the owner of mLock, the picture thread and the hotplug
\* thread run when they can; a thread that asks for mLock gets it when
\* mLock is free again and again; a spurious wake-up and a new command of
\* the framework are never promised.
Fairness ==
    /\ WF_vars(Locked)
    /\ WF_vars(pictureThread)
    /\ WF_vars(HotPlugOpen)
    /\ SF_vars(HotPlugReady)
    /\ SF_vars(AwaitReadyWake)

\* The readiness protocol on its own: the hotplug thread, awaitReady and
\* the threads that contend with them for mLock, which are the commands
\* that need no preview thread and the locked part of the picture thread.
ReadyNext ==
    \/ awaitReady
    \/ setCallbacks
    \/ takePicture
    \/ \E p \in ParamInputs : setParameters(p)
    \/ HotPlug
    \/ IHRaw
    \/ TeardownUninit \/ TeardownStopStreaming \/ TeardownClose
    \/ Unlock
    \/ \E i \in Shots : PictureBegin(i)
    \/ PictureOpen \/ PictureInit \/ PictureStartStreaming \/ PictureCapture

FairSpec == Init /\ [][ReadyNext]_vars /\ Fairness

\* The readiness protocol with the timed wait next to the untimed one
TimedNext == ReadyNext \/ awaitReadyFor

TimedSpec == Init /\ [][TimedNext]_vars

\* The preview side with a framework that may be short of memory: the
\* commands that configure, start and stop the preview, the hotplug thread,
\* the locked code and the preview threads.
PreviewNext ==
    \/ setCallbacksAnyMemory
    \/ startPreview \/ stopPreview \/ startRecording \/ stopRecording
    \/ isPreviewEnabled
    \/ \E m \in MsgInputs : enableMsgType(m)
    \/ \E m \in MsgInputs : disableMsgType(m)
    \/ \E p \in ParamInputs : setParameters(p)
    \/ HotPlug
    \/ Locked
    \/ \E w \in Workers : previewThread(w)

PreviewSpec == Init /\ [][PreviewNext]_vars

\* The frame pipeline's copies, one call at a time on every frame size
FrameNext == CallFillPreviewWindow \/ CallPreviewCrop \/ FunctionReturns

FrameSpec == Init /\ [][FrameNext]_vars

\* The capture engine on its own
EngineNext ==
    \/ EngineOpen \/ EngineInit \/ EngineStartStreaming
    \/ EngineDequeueBuf \/ EngineEnqueueBuf
    \/ EngineStopStreaming \/ EngineUninit \/ EngineClose

EngineSpec == Init /\ [][EngineNext]_vars

\* The configuration parsers, one call at a time on every file
ConfigNext == CallLoadFromFile \/ CallParseConfig \/ FunctionReturns

ConfigSpec == Init /\ [][ConfigNext]_vars

\* ------------------------------------------------------------------------
\* Properties
\* ------------------------------------------------------------------------
LiveWorkers == {w \in Workers : wpc[w] # "dead"}

CallbackPcs == {"cb_rec", "cbw_rec", "cb_prev", "cbw_prev"}

\* the positions at which the mutex owner is inside a capture engine call
EngineOpPcs == {"open", "init", "startstream", "uninit", "stopstream", "close",
                "p_open", "p_init", "p_start", "p_grab"}

\* the threads that are inside a capture engine call
EngineUsers ==
    (IF hpc = "open" THEN {HotT} ELSE {})
    \cup (IF lpc \in EngineOpPcs THEN {mLock} ELSE {})
    \cup {PrevT(w) : w \in {v \in Workers : wpc[v] = "grab"}}

\* initHeapLocked, called now, would stop the preview thread
StopRequired ==
    /\ mRequestMemory # NoAllocator
    /\ mPreviewThread # 0
    /\ \/ RawDimsChanged
       \/ how_raw_preview_big # sz.mRawPreviewFrameSize
       \/ how_preview_big # sz.mPreviewFrameSize
       \/ how_recording_big # sz.mRecordingFrameSize

C1_OneWorker ==
    /\ Cardinality(LiveWorkers) <= 1
    /\ \A w \in LiveWorkers : mPreviewThread = w
    /\ lpc \in {"open", "init", "startstream"} => mReady /\ mPreviewThread = 0

C1_AlreadyRunning ==
    (lpc = "spl" /\ lpc' # "spl" /\ mReady /\ mPreviewThread # 0)
        => /\ camera' = camera
           /\ mPreviewThread' = mPreviewThread
           /\ lpc' = Head(lstack)
           /\ (mLock = CmdT /\ cmd = "startPreview") => cret' = "NO_ERROR"

\* C1: at most one preview thread is alive and it is the one mPreviewThread
\* names; startPreviewLocked goes on to the engine and to "new PreviewThread"
\* only when mReady holds and no preview thread object exists; when one
\* exists it returns NO_ERROR with no engine call and no second thread.
C1_SinglePreviewWorker == []C1_OneWorker /\ [][C1_AlreadyRunning]_vars

\* a startPreview that found the preview thread alive is about to return
C1_Witness ==
    /\ mLock = CmdT /\ cmd = "startPreview" /\ lpc = "finish"
    /\ cret = "NO_ERROR"
    /\ mPreviewThread # 0 /\ wpc[mPreviewThread] \in {"grab", "cb_prev"}

\* C2: a command never changes the parameters, the message mask or the
\* recording flag while a preview thread is running when that change makes
\* initHeapLocked stop the thread: the thread is stopped first, then the
\* state is changed.
C2_StopBeforeMutate ==
    [][ ( /\ \/ mParameters' # mParameters
             \/ mRecordingEnabled' # mRecordingEnabled
             \/ mMsgEnabled' # mMsgEnabled
          /\ StopRequired' )
        => LiveWorkers = {} ]_vars

\* C3: within one iteration the preview thread sees one value of
\* mRecordingEnabled: while it waits for the frame, the flag still has the
\* value the thread chose its raw buffer with.
C3_NoTornRead ==
    \A w \in Workers : wpc[w] = "grab" => wRec[w] = mRecordingEnabled

\* C4: a preview thread inside GrabRawFrame does not own mLock, and whoever
\* owns mLock then is another thread.
C4_GrabWithoutLock ==
    \A w \in Workers : wpc[w] = "grab" => mLock # PrevT(w)

\* a command holds mLock while the preview thread waits for a frame
C4_Witness ==
    \E w \in Workers : wpc[w] = "grab" /\ mLock = CmdT /\ lpc = "join"

\* C5: at most one thread is inside a capture engine call.
C5_OneEngineUser == Cardinality(EngineUsers) <= 1

C6_Joined ==
    (mLock = CmdT /\ cmd = "stopPreview" /\ lpc \in {"uninit", "stopstream", "close"})
        => LiveWorkers = {} /\ mPreviewThread = 0

C6_Returns ==
    (mLock = CmdT /\ cmd = "stopPreview" /\ lpc = "close" /\ lpc' = "finish")
        => /\ camera' = ClosedEngine
           /\ mPreviewThread' = 0
           /\ \A w \in Workers : wpc'[w] = "dead"

\* C6: a stopPreview that found a preview thread goes past the join only
\* when the thread has exited, and at its return the engine is not
\* streaming, has no mapped slots and is closed.
C6_StopPreviewTearsDown == []C6_Joined /\ [][C6_Returns]_vars

\* stopPreview is about to return after the teardown of a started preview
C6_Witness ==
    /\ mLock = CmdT /\ cmd = "stopPreview" /\ lpc = "finish"
    /\ mReady /\ heap["mPreviewHeap"].alloc
    /\ mPreviewThread = 0 /\ camera = ClosedEngine

\* C7: a command that waits for the preview thread to exit is not waited for
\* by that thread: the thread is never blocked on mLock, inside a callback,
\* while the command holds mLock in requestExitAndWait.
C7_NoDeadlock ==
    (lpc = "join" /\ mPreviewThread # 0)
        => wpc[mPreviewThread] \notin {"cbw_rec", "cbw_prev"}

\* C8: a thread that is inside a client callback (preview, recording, focus,
\* shutter, raw picture, compressed picture) did not own mLock when it made
\* the call and does not own it during the call.
C8_CallbacksOutsideLock ==
    /\ \A i \in Shots :
         spc[i] \in {"cb_shutter", "cb_raw", "cb_jpeg", "cb_focus"} => mLock # ShotT(i)
    /\ \A w \in Workers : wpc[w] \in CallbackPcs => mLock # PrevT(w)

\* a picture thread delivers the compressed picture while a command holds mLock
C8_Witness ==
    \E i \in Shots : spc[i] = "cb_jpeg" /\ mLock = CmdT

\* C9: while a callback is in flight the heap it was handed is not released
\* or replaced.
C9_HeapKeptDuringCallback ==
    [][ /\ \A i \in Shots :
             /\ (spc[i] = "cb_raw" /\ spc'[i] = "cb_raw")
                   => heap'["mRawPictureHeap"] = heap["mRawPictureHeap"]
             /\ (spc[i] = "cb_jpeg" /\ spc'[i] = "cb_jpeg")
                   => heap'["mJpegPictureHeap"] = heap["mJpegPictureHeap"]
        /\ \A w \in Workers :
             /\ (wpc[w] \in {"cb_rec", "cbw_rec"} /\ wpc'[w] = wpc[w])
                   => heap'["mRecordingHeap"] = heap["mRecordingHeap"]
             /\ (wpc[w] \in {"cb_prev", "cbw_prev"} /\ wpc'[w] = wpc[w])
                   => heap'["mPreviewHeap"] = heap["mPreviewHeap"] ]_vars

\* C10: whenever the raw preview, preview or recording heap is released or
\* replaced, no preview thread is running and none is left to join.
C10_PreviewHeapsStable ==
    [][ (\E n \in {"mRawPreviewHeap", "mPreviewHeap", "mRecordingHeap"} :
            heap'[n] # heap[n])
        => LiveWorkers = {} /\ mPreviewThread = 0 ]_vars

\* initHeapLocked has stopped the preview thread and replaced a heap of it
C10_Witness ==
    /\ lpc = "ih4" /\ restart_preview /\ mPreviewThread = 0
    /\ heap["mRecordingHeap"].size = sz.mRecordingFrameSize
    /\ heap["mRecordingHeap"].alloc

\* ------------------------------------------------------------------------
\* the commands that end in initHeapLocked and so may stop the preview
ReconfiguringCommands ==
    {"setParameters", "startRecording", "stopRecording",
     "enableMsgType", "disableMsgType"}

\* a reconfiguring command that began with a running preview thread is
\* about to return
ReconfigureReturns ==
    lpc = "finish" /\ mLock = CmdT /\ cmd \in ReconfiguringCommands /\ cprev

PreviewGaveUp ==
    mPreviewThread # 0 /\ wpc[mPreviewThread] = "dead"
                       /\ ~exitReq[mPreviewThread]

\* a grab that timed out delivers nothing and the loop goes round again
\* (or ends, when an exit was requested meanwhile)
C12_TimedOutStep ==
    \A w \in Workers :
       PreviewGrabResult(w, "TIMED_OUT")
          => wpc'[w] = (IF exitReq[w] THEN "dead" ELSE "check")

\* a grab that failed ends the thread
C12_ErrorStep ==
    \A w \in Workers :
       PreviewGrabResult(w, "UNKNOWN_ERROR") => wpc'[w] = "dead"

\* a preview thread starts only in startPreviewLocked, after the former
\* thread object was joined and cleared
C12_NewWorkerStep ==
    \A w \in Workers :
       (wpc[w] = "dead" /\ wpc'[w] # "dead")
          => /\ lpc = "startstream" /\ mPreviewThread = 0
             /\ mPreviewThread' = w

\* while the thread that gave up is still installed nobody grabs a frame
C12_NoGrabAfterGiveUp ==
    PreviewGaveUp => (lpc # "p_grab" /\ \A w \in Workers : wpc[w] # "grab")

\* C12 as stated, last part: after the preview thread gave up on a capture
\* error (its buffers exist), the device is used again only after an
\* explicit stopPreview, so only stopPreview finds that thread to join.
C12_OnlyExplicitRestart ==
    [][ ( /\ lpc = "stl" /\ lpc' = "join" /\ PreviewGaveUp
          /\ heap["mRawPreviewHeap"].alloc /\ heap["mPreviewHeap"].alloc )
        => (mLock = CmdT /\ cmd = "stopPreview") ]_vars

\* C12: a timed-out grab makes the preview thread loop again without any
\* callback; a failed grab ends the thread; no frame is grabbed while the
\* thread that gave up is installed, and a new preview thread starts only
\* in startPreviewLocked after stopPreviewLocked (called by stopPreview, by
\* a reconfiguring command or by the picture thread) removed the old one.
C12_GrabFailureHandling ==
    /\ []C12_NoGrabAfterGiveUp
    /\ [][C12_TimedOutStep /\ C12_ErrorStep /\ C12_NewWorkerStep]_vars

\* the preview thread gave up on a failed grab: its buffers exist and the
\* engine it used is still streaming
C12_Witness ==
    /\ PreviewGaveUp
    /\ heap["mRawPreviewHeap"].alloc /\ heap["mPreviewHeap"].alloc
    /\ camera.streaming
    /\ mLock = FreeT

\* ------------------------------------------------------------------------
\* the engine is Streaming: opened, ring mapped, streaming started
Streaming ==
    camera.open /\ camera.mapped = NB_BUFFER /\ camera.streaming

\* C13: GrabRawFrame is called, by a preview thread or by the picture
\* thread, only while the engine is Streaming.
C13_GrabOnlyWhileStreaming ==
    (lpc = "p_grab" \/ \E w \in Workers : wpc[w] = "grab") => Streaming

\* ------------------------------------------------------------------------
\* C14: every teardown goes Streaming -> Initialized -> Closed: Uninit is
\* never issued while the engine is streaming, and Close is issued last,
\* on an engine that neither streams nor has its ring mapped.
C14_TeardownOrder ==
    [][ /\ (lpc = "uninit" /\ lpc' # "uninit") => ~camera.streaming
        /\ (lpc = "close" /\ lpc' # "close")
              => (~camera.streaming /\ camera.mapped = 0) ]_vars

\* ------------------------------------------------------------------------
\* the hotplug thread leaves its Open attempt only with an opened device
C15_RetryStep ==
    (hpc = "open" /\ hpc' # "open") => (hpc' = "lock" /\ camera'.open)

\* the hotplug thread's unlock wakes a thread waiting on mReadyCond, and a
\* hotplug thread that has ended stays ended
C15_EndStep ==
    /\ (hpc = "locked" /\ hpc' # "locked" /\ cpc = "wait") => cpc' = "woken"
    /\ hpc = "done" => hpc' = "done"

\* inside tryOpenCamera's locked part mReady is set, mLock is held and the
\* parameters are the defaults seeded from the camera
C15_ReadyUnderLock ==
    hpc = "locked" => (mLock = HotT /\ mReady /\ mParameters = CameraParams)

\* C15: the hotplug thread tries camera.Open again after every failure;
\* once an attempt succeeded mReady becomes true, set with mLock held
\* together with the seeded default parameters, mReadyCond is broadcast,
\* and the thread ends and never tries to open the device again.
C15_HotPlugCompletes ==
    /\ []C15_ReadyUnderLock
    /\ [](hpc = "done" => mReady)
    /\ [][C15_RetryStep /\ C15_EndStep]_vars
    /\ (hpc = "lock" ~> (hpc = "done" /\ mReady))

\* the hotplug thread opened the device, seeded the parameters and ended
C15_Witness ==
    hpc = "done" /\ mReady /\ mParameters = CameraParams /\ camera.open

\* ------------------------------------------------------------------------
\* C16: mReady is false at construction; it is written only by the hotplug
\* thread in the step that takes the free mLock; it goes from false to true
\* and no step ever resets it to false.
C16_ReadyOnce ==
    /\ ~mReady
    /\ [][ /\ mReady => mReady'
           /\ (mReady' # mReady) => (hpc = "lock" /\ mLock = FreeT) ]_vars

\* the hotplug thread has set mReady and ended
C16_Witness == mReady /\ hpc = "done" /\ mLock = FreeT

\* ------------------------------------------------------------------------
\* a thread is inside the blocking awaitReady and has not returned
Awaiting == cmd = "awaitReady" /\ cpc \in {"wait", "woken"}

\* awaitReady is about to return
AwaitReadyReturns == cmd = "awaitReady" /\ mLock = CmdT /\ lpc = "finish"

\* no wake-up is lost: a thread blocked on mReadyCond while mReady is true
\* has the broadcast still coming, from the hotplug thread that holds mLock
C17_NoLostWakeup ==
    (cpc = "wait" /\ mReady) => (mLock = HotT /\ hpc = "locked")

\* C17: the blocking awaitReady returns only when mReady is true; a thread
\* blocked in it while mReady is set has been or will be woken by the
\* broadcast, and once mReady is true it returns.
C17_AwaitReady ==
    /\ [](AwaitReadyReturns => mReady)
    /\ []C17_NoLostWakeup
    /\ ((Awaiting /\ mReady) ~> AwaitReadyReturns)

\* a thread that blocked in awaitReady before the camera was ready has been
\* woken by the hotplug thread's broadcast and is about to take mLock again
C17_Witness ==
    Awaiting /\ cpc = "woken" /\ mReady /\ hpc = "done" /\ mLock = FreeT

\* ------------------------------------------------------------------------
\* C18: when the hotplug thread has stopped after finding the device, the
\* device handle it opened is closed.
C18_HotPlugClosesDevice ==
    [][ (hpc # "done" /\ hpc' = "done") => ~camera'.open ]_vars

\* ------------------------------------------------------------------------
\* C19: the picture thread holds mLock from before it stops the preview
\* until after it has closed the engine, so no command and no preview
\* thread runs during the capture; when it lets go of mLock the engine is
\* Closed and no preview thread is running, whether or not it captured.
C19_PictureExclusive ==
    /\ [] ( \A i \in Shots :
              (mLock = ShotT(i) /\ lpc = "finish")
                 => (camera = ClosedEngine /\ mPreviewThread = 0
                                           /\ LiveWorkers = {}) )
    /\ [][ \A i \in Shots :
             (mLock = ShotT(i) /\ mLock' # ShotT(i)) => lpc = "finish" ]_vars

\* ------------------------------------------------------------------------
\* C20: when the encoder could not fit the picture in the buffer (it gave
\* no compressed bytes), the picture thread makes no compressed-picture
\* callback: a compressed-picture callback always hands over the bytes of
\* an encoded picture.
C20_NoJpegAfterEncodingFailure ==
    \A i \in Shots :
       (spc[i] = "cb_jpeg" /\ heap["mJpegPictureHeap"].by = i)
          => heap["mJpegPictureHeap"].size > 0

\* ------------------------------------------------------------------------
\* startPreview is about to return to its caller
StartPreviewReturns == lpc = "finish" /\ mLock = CmdT /\ cmd = "startPreview"

\* the allocator is installed and refused the raw or the converted
\* preview heap
PreviewHeapsFailed ==
    /\ mRequestMemory # NoAllocator
    /\ ~heap["mRawPreviewHeap"].alloc \/ ~heap["mPreviewHeap"].alloc

\* C21: when the raw-preview or the converted-preview heap could not be
\* allocated, startPreview does not return success and leaves no preview
\* thread registered.
C21_AllocationFailureSurfaced ==
    (StartPreviewReturns /\ PreviewHeapsFailed)
        => (cret # "NO_ERROR" /\ mPreviewThread = 0)

\* ------------------------------------------------------------------------
\* the byte size the current parameters require of a heap
Required(n) ==
    IF n = "mRawPreviewHeap" THEN how_raw_preview_big
    ELSE IF n = "mPreviewHeap" THEN how_preview_big
    ELSE IF n = "mRecordingHeap" THEN how_recording_big
    ELSE how_picture_big

\* the byte size recorded for a heap
Recorded(n) ==
    IF n = "mRawPreviewHeap" THEN sz.mRawPreviewFrameSize
    ELSE IF n = "mPreviewHeap" THEN sz.mPreviewFrameSize
    ELSE IF n = "mRecordingHeap" THEN sz.mRecordingFrameSize
    ELSE IF n = "mRawPictureHeap" THEN sz.mRawPictureBufferSize
    ELSE sz.mJpegPictureBufferSize

\* the owner of mLock takes a step of initHeapLocked with an allocator
InitHeapStep ==
    /\ lpc \in {"ih1", "ih1a", "ih2", "ih2a", "ih3", "ih3a", "ih4"}
    /\ lpc' # lpc
    /\ mRequestMemory # NoAllocator

\* the heaps whose block of initHeapLocked this step runs
BlocksOfStep ==
    IF ~InitHeapStep THEN {}
    ELSE IF lpc = "ih1" /\ mPreviewThread = 0 THEN HeapNames
    ELSE IF lpc \in {"ih1", "ih1a"} /\ lpc' = "ih2" THEN {"mRawPreviewHeap"}
    ELSE IF lpc \in {"ih2", "ih2a"} /\ lpc' = "ih3" THEN {"mPreviewHeap"}
    ELSE IF lpc \in {"ih3", "ih3a"} /\ lpc' = "ih4" THEN {"mRecordingHeap"}
    ELSE IF lpc = "ih4" THEN {"mRawPictureHeap", "mJpegPictureHeap"}
    ELSE {}

\* a block replaces its heap by a new one of the required size exactly when
\* the required size differs from the recorded one, and records the size
C22_BlockStep ==
    \A n \in BlocksOfStep :
       /\ heap'[n] = IF Required(n) # Recorded(n)
                     THEN RequestMemory(Required(n), 0)
                     ELSE heap[n]
       /\ Recorded(n)' = Required(n)

\* a step of initHeapLocked leaves the heaps of the other blocks alone
C22_OtherHeapsKept ==
    InitHeapStep => \A n \in HeapNames \ BlocksOfStep : heap'[n] = heap[n]

\* when the last block has run every recorded size is the required one and
\* the raw preview size is 2 bytes per pixel of the effective capture size
C22_AllRecorded ==
    (InitHeapStep /\ (lpc = "ih4" \/ BlocksOfStep = HeapNames))
        => /\ \A n \in HeapNames : Recorded(n)' = Required(n)'
           /\ sz'.mRawPreviewFrameSize
                 = 2 * sz'.mRawPreviewWidth * sz'.mRawPreviewHeight

\* C22: with an allocator installed, initHeapLocked replaces the heap of a
\* category by a new one of the required size exactly when the required
\* size differs from the recorded size and leaves it untouched otherwise;
\* afterwards the recorded size of every category is its required size,
\* the raw preview one being 2 bytes per pixel of the effective capture.
C22_InitHeapReallocates ==
    [][C22_BlockStep /\ C22_OtherHeapsKept /\ C22_AllRecorded]_vars

\* initHeapLocked, run block by block with a preview thread alive, has the
\* preview heap of the required size in place and is about to replace the
\* picture heaps, whose required size differs from the recorded one
C22_Witness ==
    /\ lpc = "ih4"
    /\ mRequestMemory = PlentyMemory
    /\ heap["mRawPreviewHeap"].alloc
    /\ heap["mPreviewHeap"] = RequestMemory(how_preview_big, 0)
    /\ heap["mPreviewHeap"].size # heap["mRecordingHeap"].size
    /\ heap["mRawPictureHeap"].alloc
    /\ Required("mRawPictureHeap") # Recorded("mRawPictureHeap")

\* ------------------------------------------------------------------------
Min(a, b) == IF a < b THEN a ELSE b

\* a copy of the frame pipeline has been worked out
FrameCopied == pure.fn \in {"fillPreviewWindow", "previewCrop"}

\* first source column and row of the copy, from the byte offset (YUYV: 2
\* bytes per pixel)
SrcColumn == (pure.out.srcBytes % pure.out.srcStride) \div 2

SrcRow == pure.out.srcBytes \div pure.out.srcStride

\* C23: when the source and the destination differ in size, the copy takes
\* in each dimension exactly the smaller extent, from the centre of the
\* larger one; the region fillPreviewWindow writes is no wider and no
\* taller than the preview window.
C23_CropSmallerCentred ==
    FrameCopied =>
       /\ pure.out.width = Min(pure.src[1], pure.dst[1])
       /\ pure.out.height = Min(pure.src[2], pure.dst[2])
       /\ SrcColumn = (pure.src[1] - pure.out.width) \div 2
       /\ SrcRow = (pure.src[2] - pure.out.height) \div 2
       /\ pure.out.xStart = (pure.dst[1] - pure.out.width) \div 2
       /\ pure.out.yStart = (pure.dst[2] - pure.out.height) \div 2
       /\ pure.fn = "fillPreviewWindow" =>
             /\ pure.out.xStart + pure.out.width <= pure.dst[1]
             /\ pure.out.yStart + pure.out.height <= pure.dst[2]

\* ------------------------------------------------------------------------
\* a 640x480 capture goes into a preview of 800x600
Capture640Preview800 ==
    FrameCopied /\ pure.src = << 640, 480 >> /\ pure.dst = << 800, 600 >>

\* C24: with a capture of 640x480 and a preview of 800x600 the delivered
\* frame holds the whole 640x480 image centred: 80 pixels free on the left
\* and on the right, 60 rows free at the top and at the bottom.
C24_CentredWithEvenMargins ==
    Capture640Preview800 =>
       /\ pure.out.width = 640 /\ pure.out.height = 480
       /\ pure.out.srcBytes = 0
       /\ pure.out.xStart = 80
       /\ pure.dst[1] - (pure.out.xStart + pure.out.width) = 80
       /\ pure.out.yStart = 60
       /\ pure.dst[2] - (pure.out.yStart + pure.out.height) = 60

\* ------------------------------------------------------------------------
\* a GrabRawFrame call is in progress on an engine that Init has set up
Grabbing ==
    /\ lpc = "p_grab" \/ \E w \in Workers : wpc[w] = "grab"
    /\ camera.fps > 0

\* C25: every GrabRawFrame call is given a timeout of 1.2 frame periods of
\* the frame rate the engine was negotiated with for that capture (and
\* frameTimeout, which divides by the preview frame rate, has a value).
C25_TimeoutOfNegotiatedRate ==
    Grabbing
       => /\ mParameters.previewFrameRate # 0
          /\ frameTimeout = 1200000000 \div camera.fps

\* ------------------------------------------------------------------------
\* preview thread w chooses its raw buffer and calls GrabRawFrame
GrabBegins(w) == wpc[w] = "check" /\ wpc'[w] = "grab"

\* C26: the raw frame is grabbed straight into the client's preview buffer
\* only when the preview format is YUYV and the raw preview frame size is
\* the converted preview frame size; the grab, which is given
\* mRawPreviewFrameSize bytes to fill, never writes more than a slot of
\* the preview buffer holds.
C26_PassThroughFits ==
    [][ \A w \in Workers :
          (GrabBegins(w) /\ PassThrough)
             => /\ sz.mPreviewFmt = PIXEL_FORMAT_YCrCb_422_I
                /\ sz.mRawPreviewFrameSize = sz.mPreviewFrameSize
                /\ sz.mRawPreviewFrameSize <= heap["mPreviewHeap"].size ]_vars

\* ------------------------------------------------------------------------
\* C27: setParameters with parameters equal to the current ones returns
\* success at once and changes nothing: the parameters, the heaps, the
\* recorded sizes, the engine and the preview thread stay as they were.
C27_SameParametersNoChange ==
    [][ \A params \in ParamInputs :
          (setParameters(params) /\ params = mParameters)
             => /\ cret' = "NO_ERROR"
                /\ lpc' = "finish"
                /\ UNCHANGED << mParameters, heap, sz, camera, mPreviewThread,
                                workerVars, mRecordingEnabled, mMsgEnabled >> ]_vars

\* setParameters is about to return success on an object whose
\* initHeapLocked has not run since the allocator was installed: the
\* parameters were the current ones
C27_Witness ==
    /\ lpc = "finish" /\ mLock = CmdT
    /\ cmd = "setParameters" /\ cret = "NO_ERROR"
    /\ mRequestMemory # NoAllocator
    /\ sz = InitSizes
    /\ mParameters \in ParamInputs

\* ------------------------------------------------------------------------
\* the engine and its ring
engineVars == << camera, videoIn >>

C29_RingOwnership ==
    /\ Len(videoIn.queue) <= NB_BUFFER
    /\ Cardinality(QueuedSlots(videoIn)) = Len(videoIn.queue)
    /\ QueuedSlots(videoIn) \cap videoIn.held = {}
    /\ QueuedSlots(videoIn) \cup videoIn.held
          = IF camera.mapped = NB_BUFFER THEN 0..(NB_BUFFER - 1) ELSE {}
    /\ (pure.fn = "GrabRawFrame" /\ pure.status = "NO_ERROR")
          => (pure.slot \in QueuedSlots(videoIn) /\ pure.slot \notin videoIn.held)

\* two frames have been grabbed: the ring has turned and every slot is
\* with the driver again
C29_Witness ==
    /\ pure.fn = "GrabRawFrame" /\ pure.status = "NO_ERROR" /\ pure.slot = 1
    /\ videoIn.queue = << 2, 3, 0, 1 >>
    /\ videoIn.held = {}

\* C30: after the configuration lines are loaded the orientation is one of
\* 0, 90, 180, 270, and an orientation line carrying any other value yields
\* orientation 0, whatever lines preceded it: when the last line of the
\* file is an orientation line with another value the CameraSpec's
\* orientation is 0, and when it is a camera line of parseConfig with
\* another value that camera's orientation is 0
Orientations == { 0, 90, 180, 270 }

OtherOrientation(word) == word \notin { "0", "90", "180", "270" }

LastLine == pure.lines[Len(pure.lines)]

C30_OrientationNormalised ==
    /\ pure.fn = "loadFromFile" /\ pure.out.status = "NO_ERROR"
       => /\ pure.out.spec.orientation \in Orientations
          /\ LastLine \in { << "orientation", o >> : o \in OrientationWords }
             /\ OtherOrientation(LastLine[2])
             => pure.out.spec.orientation = 0
    /\ pure.fn = "parseConfig"
       => /\ \A i \in 1..Len(pure.out) :
               pure.out[i].orientation \in Orientations
          /\ pure.lines # << >>
             /\ LastLine \in { << "back", "/dev/video1", o >> :
                               o \in OrientationWords }
             /\ OtherOrientation(LastLine[3])
             => pure.out[Len(pure.out)].orientation = 0

\* ------------------------------------------------------------------------
\* the startPreview command is inside startPreviewLocked's entry
StartPreviewEnters == lpc = "spl" /\ mLock = CmdT /\ cmd = "startPreview"

\* what startPreview must leave alone when the camera is not ready: the
\* engine, the preview threads, the heaps with their recorded sizes and
\* the parameters
previewState == << camera, workerVars, mPreviewThread, poolVars, mParameters >>

C31_NotReadyStep ==
    /\ (startPreview /\ ~mReady) => UNCHANGED previewState
    /\ (StartPreviewEnters /\ ~mReady /\ startPreviewLocked)
          => /\ StartPreviewReturns' /\ cret' = "NO_INIT"
             /\ UNCHANGED previewState

\* C31: startPreview called while ready is false returns NO_INIT and has no
\* effect: no capture engine operation is issued, no preview worker is
\* created and no heap or parameter changes.
C31_NotReadyNoEffect == [][C31_NotReadyStep]_vars

\* startPreview has returned NO_INIT
C31_Witness == StartPreviewReturns /\ cret = "NO_INIT" /\ ~mReady

\* ------------------------------------------------------------------------
\* startPreview has returned the error of camera.Open, camera.Init or
\* camera.StartStreaming
StartPreviewFailed ==
    StartPreviewReturns /\ cret \notin {"none", "NO_ERROR", "NO_INIT"}

\* C32: when startPreview fails at any step (engine Open, Init or
\* StartStreaming returns an error) it returns that error, creates no
\* preview worker, and leaves the capture engine not streaming, with no
\* mapped buffer slots and a closed device handle.
C32_FailedStartLeavesEngineClosed ==
    StartPreviewFailed
       => /\ cret = "UNKNOWN_ERROR"
          /\ mPreviewThread = 0
          /\ ~camera.streaming
          /\ camera.mapped = 0
          /\ ~camera.open

\* ------------------------------------------------------------------------
\* parameters with a preview or video frame format that is not one of the
\* four supported ones, or with a picture format other than jpeg
UnsupportedFormat(p) ==
    \/ p.previewFormat \notin {"yuv422i-yuyv", "yuv422sp", "yuv420sp", "yuv420p"}
    \/ p.videoFrameFormat \notin {"yuv422i-yuyv", "yuv422sp", "yuv420sp", "yuv420p"}
    \/ p.pictureFormat # "jpeg"

\* setParameters has returned BAD_VALUE
SetParametersRejected ==
    cmd = "setParameters" /\ mLock = CmdT /\ lpc = "finish" /\ cret = "BAD_VALUE"

C33_RejectStep ==
    \A p \in ParamInputs :
       (setParameters(p) /\ UnsupportedFormat(p))
          => /\ SetParametersRejected'
             /\ UNCHANGED << mParameters, poolVars, workerVars, mPreviewThread >>

\* C33: setParameters with a preview format or video frame format outside
\* {yuv422i-yuyv, yuv422sp, yuv420sp, yuv420p}, or a picture format other
\* than jpeg, returns BAD_VALUE and leaves the stored parameters, all heaps
\* and the preview worker unchanged.
C33_UnsupportedFormatRejected == [][C33_RejectStep]_vars

\* parameters were rejected while a preview thread was running
C33_Witness == SetParametersRejected /\ PreviewRunning /\ mPreviewThread # 0

\* ------------------------------------------------------------------------
C34_EnabledStep ==
    /\ isPreviewEnabled => (cret' # "0" <=> PreviewRunning)
    /\ (StartPreviewEnters /\ mReady /\ ~PreviewRunning /\ startPreviewLocked)
          => lpc' = "open"

\* C34: isPreviewEnabled returns nonzero exactly when a preview worker
\* thread is actually running its grab loop; in particular it returns 0
\* after the worker has terminated on an I/O error or on a missing buffer,
\* and a startPreview issued then goes on to start a new worker.
C34_EnabledIffWorkerRuns == [][C34_EnabledStep]_vars

\* ------------------------------------------------------------------------
\* the timed awaitReady is at its return
AwaitReadyForReturns == cmd = "awaitReadyFor" /\ mLock = CmdT /\ lpc = "finish"

\* C35: the timed awaitReady returns true if and only if ready is true at
\* the moment it returns: it returns false only when the wait timed out and
\* ready is still false.
C35_TimedAwaitTellsReady ==
    AwaitReadyForReturns => (cret = "true" <=> mReady)

\* ------------------------------------------------------------------------
\* the raw preview dimensions and the raw preview, converted preview and
\* recording frame sizes the parameters ask for are the recorded ones
PreviewSizesKept ==
    /\ ~RawDimsChanged
    /\ \A n \in {"mRawPreviewHeap", "mPreviewHeap", "mRecordingHeap"} :
          Required(n) = Recorded(n)

\* p differs from the stored parameters in the picture size only
OnlyPictureSize(p) ==
    /\ p.pictureSize # mParameters.pictureSize
    /\ p = [mParameters EXCEPT !.pictureSize = p.pictureSize]

\* a command is inside its initHeapLocked call
CommandInInitHeap ==
    /\ mLock = CmdT /\ cmd \in ReconfiguringCommands
    /\ lpc \in {"ih1", "ih2", "ih3", "ih4"}

C36_NoStopStep ==
    /\ (CommandInInitHeap /\ PreviewSizesKept /\ initHeapLocked)
          => /\ lpc' # "stl"
             /\ UNCHANGED << exitReq, mPreviewThread, camera >>
    /\ ((startRecording \/ stopRecording) /\ PreviewSizesKept
           /\ mParameters.videoSize = mParameters.previewSize)
          => PreviewSizesKept'
    /\ \A p \in ParamInputs :
          (setParameters(p) /\ PreviewSizesKept /\ OnlyPictureSize(p))
             => PreviewSizesKept'

\* C36: a command that changes none of the raw-preview dimensions and none
\* of the raw-preview, converted-preview and recording frame sizes never
\* stops the preview worker: toggling recording when the video size equals
\* the preview size, or changing only the picture size (which reallocates
\* only the raw-picture and JPEG heaps), leaves the preview worker running
\* without interruption.
C36_NoStopWithoutSizeChange == [][C36_NoStopStep]_vars

\* setParameters with a new picture size only is about to replace the
\* picture heaps while the preview thread, never stopped, is running
C36_Witness ==
    /\ CommandInInitHeap /\ cmd = "setParameters" /\ lpc = "ih4"
    /\ ~restart_preview /\ cprev
    /\ mPreviewThread # 0 /\ wpc[mPreviewThread] # "dead"
    /\ PreviewSizesKept
    /\ how_picture_big # sz.mRawPictureBufferSize

\* ------------------------------------------------------------------------
\* preview thread w has a frame and goes on to convert it into a recording
\* buffer and to deliver it
RecordingFrameDelivered(w) == wpc[w] = "grab" /\ wpc'[w] = "cb_rec"

\* C37: whenever the preview worker delivers a recording frame (recording
\* enabled and the video-frame message enabled), the effective capture
\* size of the raw frame it converts equals the video size stored in the
\* parameters.
C37_RecordingFrameHasVideoSize ==
    [][ \A w \in Workers :
          RecordingFrameDelivered(w)
             => /\ UseVideoSize(mRecordingEnabled, mMsgEnabled)
                /\ << sz.mRawPreviewWidth, sz.mRawPreviewHeight >>
                      = mParameters.videoSize ]_vars

\* ------------------------------------------------------------------------
\* The client's buffers: previewThread with the buffer of the preview heap
\* and of the recording heap it writes and hands to the callbacks
\* ------------------------------------------------------------------------
\* the buffers handed last, with buffer i handed after them
Handed(h, i) ==
    IF Len(h) < kBufferCount - 1 THEN Append(h, i) ELSE Append(Tail(h), i)

\* the recording part of previewThread: the frame is converted into
\* mRecBuffers[mCurrentRecordingFrame], the index moves on and
\* mDataCbTimestamp gets the buffer
DeliverRecording(s) ==
    [ s EXCEPT !.mCurrentRecordingFrame = (@ + 1) % kBufferCount,
               !.recordingHanded = Handed(@, s.mCurrentRecordingFrame) ]

\* the buffer is handed to mDataCb and the index stays
DeliverPreviewSameIndex(s) ==
    [ s EXCEPT !.previewHanded = Handed(@, s.mCurrentPreviewFrame),
               !.frame = NoSlot ]

\* the preview part of previewThread: the frame is converted into "frame",
\* the index moves on and mDataCb gets mPreviewHeap's buffer of the index
DeliverPreview(s) ==
    [ s EXCEPT !.mCurrentPreviewFrame = (@ + 1) % kBufferCount,
               !.previewHanded = Handed(@, s.mCurrentPreviewFrame),
               !.frame = NoSlot ]

\* the indices when the thread goes on to stage
SlotsAt(stage, s) ==
    IF stage = "cb_rec" THEN DeliverRecording(s)
    ELSE IF stage = "cb_prev" THEN DeliverPreview(s)
    ELSE [s EXCEPT !.frame = NoSlot]

\* the buffer checks: "frame = mPreviewBuffer[mCurrentPreviewFrame]"
SlotSelect(w) ==
    /\ wpc[w] = "check"
    /\ IF heap["mRawPreviewHeap"].alloc /\ heap["mPreviewHeap"].alloc
       THEN /\ wpc' = [wpc EXCEPT ![w] = "grab"]
            /\ wRec' = [wRec EXCEPT ![w] = mRecordingEnabled]
            /\ slots' = [slots EXCEPT !.frame = slots.mCurrentPreviewFrame]
       ELSE /\ wpc' = [wpc EXCEPT ![w] = "dead"]
            /\ UNCHANGED << wRec, slots >>
    /\ UNCHANGED << lockVars, cmdVars, hpc, exitReq, shotVars, coordVars,
                    poolVars, camera, pure, videoIn >>

\* camera.GrabRawFrame returns status, and the frame goes to the first
\* callback that is enabled
SlotGrabResult(w, status) ==
    /\ wpc[w] = "grab"
    /\ wpc' = [wpc EXCEPT ![w] = AfterGrab(w, status)]
    /\ wRec' = [wRec EXCEPT ![w] = FALSE]
    /\ slots' = SlotsAt(AfterGrab(w, status), slots)
    /\ UNCHANGED << lockVars, cmdVars, hpc, exitReq, shotVars,
                    coordVars, poolVars, camera, pure, videoIn >>

SlotGrab(w) == \E status \in GrabResults : SlotGrabResult(w, status)

\* the indices when the callback the thread is in returns
SlotsAfterCallback(w) ==
    IF wpc[w] \in {"cb_rec", "cbw_rec"} THEN SlotsAt(AfterCallback(w), slots)
    ELSE slots

\* the recording or preview callback returns
SlotCallbackReturn(w) ==
    /\ wpc[w] \in {"cb_rec", "cb_prev"}
    /\ wpc' = [wpc EXCEPT ![w] = AfterCallback(w)]
    /\ slots' = SlotsAfterCallback(w)
    /\ UNCHANGED << lockVars, cmdVars, hpc, exitReq, wRec, shotVars,
                    coordVars, poolVars, camera, pure, videoIn >>

\* the command called from the callback gets mLock, runs, and all return
SlotCallbackLocked(w) ==
    /\ wpc[w] \in {"cbw_rec", "cbw_prev"}
    /\ mLock = FreeT
    /\ wpc' = [wpc EXCEPT ![w] = AfterCallback(w)]
    /\ slots' = SlotsAfterCallback(w)
    /\ UNCHANGED << lockVars, cmdVars, hpc, exitReq, wRec, shotVars,
                    coordVars, poolVars, camera, pure, videoIn >>

\* previewThread with its buffers
previewThreadSlots(w) ==
    \/ SlotSelect(w) \/ SlotGrab(w)
    \/ SlotCallbackReturn(w) \/ PreviewCallbackReenter(w)
    \/ SlotCallbackLocked(w)

SlotNext ==
    \/ setCallbacks
    \/ startPreview \/ stopPreview \/ startRecording \/ stopRecording
    \/ \E m \in MsgInputs : enableMsgType(m)
    \/ \E m \in MsgInputs : disableMsgType(m)
    \/ \E p \in ParamInputs : setParameters(p)
    \/ HotPlug
    \/ Locked
    \/ \E w \in Workers : previewThreadSlots(w)

SlotSpec == Init /\ [][SlotNext]_vars

\* ------------------------------------------------------------------------
\* an index of a buffer of the preview heap or of the recording heap
SlotIndices == 0 .. kBufferCount - 1

\* the buffers of h
HandedSlots(h) == { h[j] : j \in 1..Len(h) }

\* every buffer of h follows the one handed before it, and index follows
\* the last of them
InTurn(h, index) ==
    /\ \A j \in 1..Len(h) - 1 : h[j + 1] = (h[j] + 1) % kBufferCount
    /\ h # << >> => index = (h[Len(h)] + 1) % kBufferCount

\* a preview thread has chosen its "frame" and may write it
FrameInUse == \E w \in Workers : wpc[w] \in {"grab", "cb_rec", "cbw_rec"}

\* C38: the preview and recording slot indices always lie in
\* [0, kBufferCount); each delivered frame uses the slot index that follows
\* the previously delivered one modulo kBufferCount, also across preview
\* restarts, so a slot handed to a callback is not written again until
\* kBufferCount - 1 further frames of that kind have been delivered.
C38_SlotsInTurn ==
    /\ slots.mCurrentPreviewFrame \in SlotIndices
    /\ slots.mCurrentRecordingFrame \in SlotIndices
    /\ InTurn(slots.previewHanded, slots.mCurrentPreviewFrame)
    /\ InTurn(slots.recordingHanded, slots.mCurrentRecordingFrame)
    /\ FrameInUse => /\ slots.frame = slots.mCurrentPreviewFrame
                     /\ slots.frame \notin HandedSlots(slots.previewHanded)
    /\ slots.mCurrentRecordingFrame \notin HandedSlots(slots.recordingHanded)

\* a command that changed the sizes has stopped the preview thread and is
\* starting the next one while both indices, having gone round the heaps,
\* stand in the middle of them
C38_Witness ==
    /\ lpc = "startstream" /\ cmd = "setParameters"
    /\ LiveWorkers = {}
    /\ Len(slots.previewHanded) = kBufferCount - 1
    /\ Len(slots.recordingHanded) = kBufferCount - 1
    /\ slots.mCurrentPreviewFrame = 1
    /\ slots.mCurrentRecordingFrame = 3

\* ------------------------------------------------------------------------
\* the positions of initHeapLocked
InitHeapPositions == {"ih1", "ih1a", "ih2", "ih2a", "ih3", "ih3a", "ih4"}

\* the positions of initHeapLocked after its first block
AfterRawBlock == InitHeapPositions \ {"ih1"}

\* the initHeapLocked call in progress is the one of startPreviewLocked
NestedInitHeap ==
    /\ lpc \in InitHeapPositions
    /\ lstack # << >> /\ Head(lstack) = "startstream"

\* initHeapLocked calls stopPreviewLocked
InitHeapStops == lpc \in InitHeapPositions /\ lpc' = "stl"

\* initHeapLocked calls startPreviewLocked
InitHeapRestarts == lpc = "ih4" /\ lpc' = "spl"

C39_StopAndRestartStep ==
    /\ InitHeapStops => /\ ~restart_preview /\ restart_preview'
                        /\ mPreviewThread # 0
                        /\ ~NestedInitHeap
    /\ InitHeapRestarts => /\ restart_preview /\ ~restart_preview'
                           /\ mPreviewThread = 0
                           /\ ~NestedInitHeap

C39_NestedCallIdle ==
    /\ Len(lstack) <= 2
    /\ NestedInitHeap => /\ lpc = "ih1"
                         /\ mPreviewThread = 0 /\ ~restart_preview
    /\ (restart_preview /\ lpc \in AfterRawBlock) => mPreviewThread = 0

\* C39: one call of initHeapLocked stops the preview worker at most once
\* and restarts it at most once: a stop is made only when no stop was made
\* before in the call, and from it on the call sees no preview thread; the
\* initHeapLocked call nested inside the restarting startPreviewLocked sees
\* no preview worker, so it neither stops nor restarts preview again, and
\* the calls nest two deep at most.
C39_OneStopOneRestart ==
    []C39_NestedCallIdle /\ [][C39_StopAndRestartStep]_vars

\* the initHeapLocked call of the startPreviewLocked with which a command's
\* initHeapLocked restarts the preview it stopped
C39_Witness ==
    /\ NestedInitHeap
    /\ mLock = CmdT /\ cmd \in ReconfiguringCommands
    /\ cprev

\* ------------------------------------------------------------------------
\* The stabilisation loop of pictureThread, on every picture size and every
\* sequence of grabbed frames
\* ------------------------------------------------------------------------
\* the effective picture sizes getSize gives, <<0, 0>> for an engine whose
\* Init failed
StabiliseSizes == EngineSizes \cup { << 0, 0 >> }

\* "thresh = (w >> 4) * (h >> 4) * 12"
StabiliseThresh(w, h) == (w \div 16) * (h \div 16) * 12

\* the metering points: x from 0 below w << 1 in steps of 32, y from 0 below
\* h * stride in steps of 16 * stride
MeteringPoints(w, h) == ((w * 2 + 31) \div 32) * ((h + 15) \div 16)

\* sums of the metering points of a frame; after a failed grab the buffer
\* holds what it held before or what the heap was allocated with
Luminances(w, h) ==
    { l \in { 0, 3000, 3600, 3601, 20000, 76500, 306000 } :
        l <= 255 * MeteringPoints(w, h) }

\* the locals before the loop
StabiliseLocals(w, h) ==
    [ fn |-> "stabilise", size |-> << w, h >>,
      maxFramesToWait |-> 8, luminanceStableFor |-> 0, prevLuminance |-> 0,
      thresh |-> StabiliseThresh(w, h), grabs |-> 0 ]

\* the loop without its limit of eight frames
StabiliseGoesOnUnlimited(p) == p.luminanceStableFor < 4

\* "while (maxFramesToWait > 0 && luminanceStableFor < 4)"
StabiliseGoesOn(p) == p.maxFramesToWait > 0 /\ p.luminanceStableFor < 4

\* one pass of the loop with a frame whose metering points sum to luminance
StabilisePass(p, luminance) ==
    LET dif == AbsDiff(p.prevLuminance, luminance)
    IN  [ p EXCEPT !.prevLuminance = luminance,
                   !.luminanceStableFor = IF dif > p.thresh THEN 1 ELSE @ + 1,
                   !.maxFramesToWait = @ - 1,
                   !.grabs = @ + 1 ]

\* pictureThread reaches the loop with a picture of w x h
StabiliseBegins ==
    /\ pure = NoFunction
    /\ \E s \in StabiliseSizes : pure' = StabiliseLocals(s[1], s[2])
    /\ UNCHANGED << hardwareVars, videoIn >>

\* camera.GrabRawFrame returns status and the frame is metered
StabiliseGrab ==
    /\ pure.fn = "stabilise"
    /\ StabiliseGoesOn(pure)
    /\ \E status \in GrabResults,
          luminance \in Luminances(pure.size[1], pure.size[2]) :
         pure' = StabilisePass(pure, luminance)
    /\ UNCHANGED << hardwareVars, videoIn >>

\* the loop ends
StabiliseEnds ==
    /\ pure.fn = "stabilise"
    /\ ~StabiliseGoesOn(pure)
    /\ pure' = [ fn |-> "stabilised", grabs |-> pure.grabs,
                 luminanceStableFor |-> pure.luminanceStableFor ]
    /\ UNCHANGED << hardwareVars, videoIn >>

StabiliseNext == StabiliseBegins \/ StabiliseGrab \/ StabiliseEnds \/ FunctionReturns

StabiliseSpec == Init /\ [][StabiliseNext]_vars

\* ------------------------------------------------------------------------
\* C40: the still-picture stabilisation loop always terminates after at
\* least 4 and at most 8 GrabRawFrame calls, whatever the luminance values
\* and whatever status each grab returns: while it runs it has made eight
\* calls at most, after eight it goes on no more, and when it has ended it
\* has made four at least.
C40_FourToEightGrabs ==
    /\ pure.fn = "stabilise" => /\ pure.grabs <= 8
                                /\ pure.grabs = 8 => ~StabiliseGoesOn(pure)
    /\ pure.fn = "stabilised" => pure.grabs >= 4 /\ pure.grabs <= 8

\* the loop has ended after eight frames without four stable ones
C40_Witness ==
    /\ pure.fn = "stabilised"
    /\ pure.grabs = 8 /\ pure.luminanceStableFor < 4

====
